---- MODULE Spec2Model ----
(***************************************************************************)
(* Synchronisation core of quay/release-readiness: the object-store (S3)   *)
(* syncer, the issue-tracker (JIRA) client and syncer, and the readiness   *)
(* evaluator, each as a state machine over the persistent store's tables.  *)
(***************************************************************************)
EXTENDS Integers, Sequences, FiniteSets, Bags, TLC

VARIABLES
    \* ---- object store and the tables the S3 syncer writes
    bucket,                 \* keys of the snapshot.json objects in the bucket
    snapshots,              \* table snapshots, in id order (id = position)
    components,             \* table components (names)
    snapshot_components,    \* table snapshot_components, in insertion order
    snapshot_test_results,  \* table snapshot_test_results, in insertion order
    s3,                     \* per S3 syncer: position in SyncOnce / ingest
    passes,                 \* SyncOnce passes started so far
    \* ---- the tables the JIRA syncer writes
    release_versions,       \* table release_versions, a bag of rows
    jira_issues,            \* table jira_issues, a bag of rows
    js,                     \* JIRA syncer: position in SyncOnce / syncVersion
    cycles,                 \* JIRA SyncOnce cycles started so far
    \* ---- one call of each client / evaluator function
    rt,                     \* doGetWithRetry: the call and the server it meets
    sr,                     \* SearchIssues / DiscoverActiveReleases: paging
    ev,                     \* computeReadiness: inputs and result
    pv,                     \* DiscoverActiveReleases: one ticket summary
    \* ---- the two Run loops
    run,                    \* per syncer: position in Run, ticker, SyncOnce calls
    cancelled,              \* ctx.Done() is closed
    \* ---- the process around them
    api,                    \* the readiness handlers: the instant, their answers
    main                    \* main: position, from srv.Run to database.Close

s3vars == <<bucket, snapshots, components, snapshot_components,
            snapshot_test_results, s3, passes>>

jiravars == <<release_versions, jira_issues, js, cycles>>

callvars == <<rt, sr, ev, pv>>

runvars == <<run, cancelled>>

srvvars == <<api, main>>

vars == <<s3vars, jiravars, callvars, runvars, srvvars>>

\* ------------------------------------------------------------------ bounds
MaxPasses == 2
MaxCycles == 2
MaxLimited == 5     \* rate-limit responses a server answers first: 0..MaxLimited
MaxTotal == 6       \* issues a search matches: 0..MaxTotal
MaxPage == 3        \* page size of the server: 1..MaxPage
MaxTokens == 3      \* words of a ticket summary: 1..MaxTokens
MaxRuns == 3        \* SyncOnce calls of one Run loop
MaxCalls == 3       \* requests of one search that are counted: 0..MaxCalls

\* ------------------------------------------------------- sequence helpers
Range(f) == {f[i] : i \in DOMAIN f}

\* ===================================================================
\* Object store: applications, snapshot keys, manifests, result files
\* ===================================================================
Syncers == {1, 2}

AllApps == <<"appA", "appB">>

\* Keys "{app}/snapshots/{dir}/snapshot.json" in listing (lexical) order.
AllKeys == <<"appA/1", "appA/2", "appB/1">>

KeyApp(k) == IF k = "appB/1" THEN "appB" ELSE "appA"

\* The manifest stored under a key, as konflux.Convert returns it. The object
\* under appB/1 carries the same snapshot name as the one under appA/1.
Manifest(k) ==
    CASE k = "appA/1" -> [Snapshot |-> "snap-1", Application |-> "appA",
                          TestsPassed |-> TRUE, CreatedAt |-> 2,
                          Components |-> <<"quay">>,
                          TestResults |-> <<"e2e">>]
      [] k = "appA/2" -> [Snapshot |-> "snap-2", Application |-> "appA",
                          TestsPassed |-> FALSE, CreatedAt |-> 1,
                          Components |-> <<"quay">>,
                          TestResults |-> <<"e2e">>]
      [] OTHER        -> [Snapshot |-> "snap-1", Application |-> "appB",
                          TestsPassed |-> TRUE, CreatedAt |-> 3,
                          Components |-> <<>>,
                          TestResults |-> <<>>]

\* Total of the merged JUnit result under {dir}/junit/{scenario}/.
JunitTotal(k, scenario) == IF k = "appA/1" THEN 5 ELSE 7

ListApplications(b) ==
    SelectSeq(AllApps, LAMBDA a : \E k \in b : KeyApp(k) = a)

ListSnapshots(b, app) ==
    SelectSeq(AllKeys, LAMBDA k : k \in b /\ KeyApp(k) = app)

\* ===================================================================
\* Persistent store: snapshot tables
\* ===================================================================
SnapshotNames(tbl) == {tbl[i].name : i \in DOMAIN tbl}

SnapshotExistsByName(tbl, name) ==
    Cardinality({i \in DOMAIN tbl : tbl[i].name = name}) > 0

\* Variant of the schema without the UNIQUE constraint on snapshots.name.
UniqueNameFreeNoIndex(tbl, name) == TRUE

\* snapshots.name is declared UNIQUE: the insert is refused for a taken name.
UniqueNameFree(tbl, name) == \A i \in DOMAIN tbl : tbl[i].name # name

SnapshotRow(snap) ==
    [application |-> snap.Application, name |-> snap.Snapshot,
     tests_passed |-> snap.TestsPassed, created_at |-> snap.CreatedAt]

\* ===================================================================
\* S3 syncer
\* ===================================================================
S3Idle ==
    [pc |-> "idle", apps |-> <<>>, keys |-> <<>>, summary |-> <<>>,
     recId |-> 0, idx |-> 0, covered |-> FALSE, listed |-> FALSE,
     again |-> {},
     applog |-> [a \in Range(AllApps) |-> "none"],
     log |-> [k \in Range(AllKeys) |-> "none"]]

\* The bucket holds no snapshot beyond those already stored.
Covered(b, tbl) == \A k \in b : Manifest(k).Snapshot \in SnapshotNames(tbl)

\* The keys of the bucket b that the pass r, now returned, has left for the
\* next pass: those it logged an error for (ListApplications, ListSnapshots,
\* GetSnapshot, or a store call).
S3LeftOver(r, b) ==
    {k \in b : \/ ~r.listed
               \/ r.applog[KeyApp(k)] = "fail"
               \/ r.log[k] \in {"nofetch", "storeerr"}}

\* "continue" of the application loop: the next application, or return.
S3NextApp(r) ==
    IF Len(r.apps) > 1
    THEN [r EXCEPT !.pc = "apps", !.apps = Tail(r.apps), !.keys = <<>>]
    ELSE [r EXCEPT !.pc = "idle", !.apps = <<>>, !.keys = <<>>]

\* "continue" of the key loop: the next key, or the next application.
S3NextKey(r, outcome) ==
    LET q == [r EXCEPT !.log[Head(r.keys)] = outcome, !.summary = <<>>,
                       !.recId = 0, !.idx = 0]
    IN  IF Len(q.keys) > 1
        THEN [q EXCEPT !.pc = "keys", !.keys = Tail(q.keys)]
        ELSE S3NextApp(q)

S3Frame == UNCHANGED <<bucket, passes>>
S3NoWrite ==
    UNCHANGED <<snapshots, components, snapshot_components,
                snapshot_test_results>>

\* SyncOnce, entry: ListApplications; an error ends the pass.
S3SyncOnce(p) ==
    /\ s3[p].pc = "idle"
    /\ passes < MaxPasses
    /\ passes' = passes + 1
    /\ \E ok \in BOOLEAN :
         LET apps == ListApplications(bucket)
             r == [S3Idle EXCEPT !.covered = Covered(bucket, snapshots)]
         IN  s3' = [s3 EXCEPT ![p] =
                 IF ok /\ apps # <<>>
                 THEN [r EXCEPT !.pc = "apps", !.apps = apps, !.listed = TRUE,
                                !.applog = [a \in DOMAIN r.applog |->
                                   IF a \in Range(apps) THEN "pending"
                                   ELSE "none"]]
                 ELSE [r EXCEPT !.listed = ok]]
    /\ UNCHANGED bucket
    /\ S3NoWrite

\* SyncOnce, entry, on every further tick once MaxPasses passes have been
\* counted: the same step, the count left as it is. From here on a pass
\* keeps, in again, the keys the pass before it left over.
S3SyncOnceAgain(p) ==
    /\ s3[p].pc = "idle"
    /\ passes = MaxPasses
    /\ \E ok \in BOOLEAN :
         LET apps == ListApplications(bucket)
             r == [S3Idle EXCEPT !.covered = Covered(bucket, snapshots),
                                 !.again = S3LeftOver(s3[p], bucket)]
         IN  s3' = [s3 EXCEPT ![p] =
                 IF ok /\ apps # <<>>
                 THEN [r EXCEPT !.pc = "apps", !.apps = apps, !.listed = TRUE,
                                !.applog = [a \in DOMAIN r.applog |->
                                   IF a \in Range(apps) THEN "pending"
                                   ELSE "none"]]
                 ELSE [r EXCEPT !.listed = ok]]
    /\ UNCHANGED <<bucket, passes>>
    /\ S3NoWrite

\* Variant of the application loop that returns from SyncOnce when the
\* listing of an application fails, instead of going on to the next one.
S3ListSnapshotsAbort(p) ==
    /\ s3[p].pc = "apps"
    /\ LET r == s3[p]
           app == Head(r.apps)
           keys == ListSnapshots(bucket, app)
       IN  \E ok \in BOOLEAN :
             s3' = [s3 EXCEPT ![p] =
               IF ~ok THEN [r EXCEPT !.pc = "idle", !.apps = <<>>,
                                     !.keys = <<>>, !.applog[app] = "fail"]
               ELSE IF keys = <<>> THEN S3NextApp([r EXCEPT !.applog[app] = "ok"])
               ELSE [r EXCEPT !.pc = "keys", !.keys = keys,
                              !.applog[app] = "ok",
                              !.log = [k \in DOMAIN r.log |->
                                         IF k \in Range(keys) THEN "listed"
                                         ELSE r.log[k]]]]
    /\ S3Frame
    /\ S3NoWrite

\* SyncOnce, application loop: ListSnapshots of the current application.
S3ListSnapshots(p) ==
    /\ s3[p].pc = "apps"
    /\ LET r == s3[p]
           app == Head(r.apps)
           keys == ListSnapshots(bucket, app)
       IN  \E ok \in BOOLEAN :
             s3' = [s3 EXCEPT ![p] =
               IF ~ok THEN S3NextApp([r EXCEPT !.applog[app] = "fail"])
               ELSE IF keys = <<>> THEN S3NextApp([r EXCEPT !.applog[app] = "ok"])
               ELSE [r EXCEPT !.pc = "keys", !.keys = keys,
                              !.applog[app] = "ok",
                              !.log = [k \in DOMAIN r.log |->
                                         IF k \in Range(keys) THEN "listed"
                                         ELSE r.log[k]]]]
    /\ S3Frame
    /\ S3NoWrite

\* After the Snapshot row and after each child row: the next child to write.
S3AfterWrite(r, snap, nextIdx, phase) ==
    IF phase = "comps" /\ nextIdx <= Len(snap.Components)
    THEN [r EXCEPT !.pc = "comps", !.idx = nextIdx]
    ELSE IF phase = "comps" /\ Len(snap.TestResults) > 0
    THEN [r EXCEPT !.pc = "results", !.idx = 1]
    ELSE IF phase = "results" /\ nextIdx <= Len(snap.TestResults)
    THEN [r EXCEPT !.pc = "results", !.idx = nextIdx]
    ELSE S3NextKey(r, "done")

\* Variant of the key loop that resumes the ingestion of a stored snapshot
\* (get-or-create) instead of skipping it.
S3GetSnapshotReattach(p) ==
    /\ s3[p].pc = "keys"
    /\ LET r == s3[p]
           snap == Manifest(Head(r.keys))
           id == CHOOSE i \in DOMAIN snapshots :
                    snapshots[i].name = snap.Snapshot
       IN  \E fetchOk, storeOk \in BOOLEAN :
             s3' = [s3 EXCEPT ![p] =
               IF ~fetchOk THEN S3NextKey(r, "nofetch")
               ELSE IF ~storeOk THEN S3NextKey(r, "storeerr")
               ELSE IF SnapshotExistsByName(snapshots, snap.Snapshot)
                    THEN S3AfterWrite([r EXCEPT !.recId = id], snap, 1, "comps")
               ELSE [r EXCEPT !.pc = "junit"]]
    /\ S3Frame
    /\ S3NoWrite

\* Variant of the key loop that returns from SyncOnce on a failed manifest
\* fetch instead of continuing with the next key.
S3GetSnapshotAbort(p) ==
    /\ s3[p].pc = "keys"
    /\ LET r == s3[p]
           snap == Manifest(Head(r.keys))
       IN  \E fetchOk, storeOk \in BOOLEAN :
             s3' = [s3 EXCEPT ![p] =
               IF ~fetchOk
               THEN [r EXCEPT !.pc = "idle", !.apps = <<>>, !.keys = <<>>,
                              !.log[Head(r.keys)] = "nofetch"]
               ELSE IF ~storeOk THEN S3NextKey(r, "storeerr")
               ELSE IF SnapshotExistsByName(snapshots, snap.Snapshot)
                    THEN S3NextKey(r, "exists")
               ELSE [r EXCEPT !.pc = "junit"]]
    /\ S3Frame
    /\ S3NoWrite

\* Variant of the key loop that goes from the existence check straight to
\* CreateSnapshot, leaving the result files to be fetched later.
S3GetSnapshotNoPrefetch(p) ==
    /\ s3[p].pc = "keys"
    /\ LET r == s3[p]
           snap == Manifest(Head(r.keys))
       IN  \E fetchOk, storeOk \in BOOLEAN :
             s3' = [s3 EXCEPT ![p] =
               IF ~fetchOk THEN S3NextKey(r, "nofetch")
               ELSE IF ~storeOk THEN S3NextKey(r, "storeerr")
               ELSE IF SnapshotExistsByName(snapshots, snap.Snapshot)
                    THEN S3NextKey(r, "exists")
               ELSE [r EXCEPT !.pc = "create"]]
    /\ S3Frame
    /\ S3NoWrite

\* SyncOnce, key loop: GetSnapshot, then the existence check.
S3GetSnapshot(p) ==
    /\ s3[p].pc = "keys"
    /\ LET r == s3[p]
           snap == Manifest(Head(r.keys))
       IN  \E fetchOk, storeOk \in BOOLEAN :
             s3' = [s3 EXCEPT ![p] =
               IF ~fetchOk THEN S3NextKey(r, "nofetch")
               ELSE IF ~storeOk THEN S3NextKey(r, "storeerr")
               ELSE IF SnapshotExistsByName(snapshots, snap.Snapshot)
                    THEN S3NextKey(r, "exists")
               ELSE [r EXCEPT !.pc = "junit"]]
    /\ S3Frame
    /\ S3NoWrite

\* ingest: GetTestResults per test result, before any write; a failed fetch
\* leaves the test result without a summary (0 here).
S3GetTestResults(p) ==
    /\ s3[p].pc = "junit"
    /\ LET r == s3[p]
           k == Head(r.keys)
           trs == Manifest(k).TestResults
       IN  \E okset \in SUBSET (DOMAIN trs) :
             s3' = [s3 EXCEPT ![p] =
               [r EXCEPT !.pc = "create",
                         !.summary = [i \in DOMAIN trs |->
                            IF i \in okset THEN JunitTotal(k, trs[i]) ELSE 0]]]
    /\ S3Frame
    /\ S3NoWrite

\* Variant of CreateSnapshot as INSERT OR REPLACE: a taken name has its row
\* overwritten with the manifest at hand.
S3CreateSnapshotReplace(p) ==
    /\ s3[p].pc = "create"
    /\ LET r == s3[p]
           snap == Manifest(Head(r.keys))
           id == CHOOSE i \in DOMAIN snapshots :
                    snapshots[i].name = snap.Snapshot
       IN  \E storeOk \in BOOLEAN :
             IF storeOk /\ UniqueNameFree(snapshots, snap.Snapshot)
             THEN /\ snapshots' = Append(snapshots, SnapshotRow(snap))
                  /\ s3' = [s3 EXCEPT ![p] =
                       S3AfterWrite([r EXCEPT !.recId = Len(snapshots) + 1],
                                    snap, 1, "comps")]
             ELSE IF storeOk
             THEN /\ snapshots' = [snapshots EXCEPT ![id] = SnapshotRow(snap)]
                  /\ s3' = [s3 EXCEPT ![p] = S3NextKey(r, "dup")]
             ELSE /\ snapshots' = snapshots
                  /\ s3' = [s3 EXCEPT ![p] = S3NextKey(r, "storeerr")]
    /\ S3Frame
    /\ UNCHANGED <<components, snapshot_components, snapshot_test_results>>

\* ingest: CreateSnapshot.
S3CreateSnapshot(p) ==
    /\ s3[p].pc = "create"
    /\ LET r == s3[p]
           snap == Manifest(Head(r.keys))
       IN  \E storeOk \in BOOLEAN :
             IF storeOk /\ UniqueNameFree(snapshots, snap.Snapshot)
             THEN /\ snapshots' = Append(snapshots, SnapshotRow(snap))
                  /\ s3' = [s3 EXCEPT ![p] =
                       S3AfterWrite([r EXCEPT !.recId = Len(snapshots) + 1],
                                    snap, 1, "comps")]
             ELSE /\ snapshots' = snapshots
                  /\ s3' = [s3 EXCEPT ![p] =
                       S3NextKey(r, IF storeOk THEN "dup" ELSE "storeerr")]
    /\ S3Frame
    /\ UNCHANGED <<components, snapshot_components, snapshot_test_results>>

\* ingest: EnsureComponent and CreateSnapshotComponent of one component.
S3CreateSnapshotComponent(p) ==
    /\ s3[p].pc = "comps"
    /\ LET r == s3[p]
           snap == Manifest(Head(r.keys))
           comp == snap.Components[r.idx]
       IN  \E ensureOk, createOk \in BOOLEAN :
             /\ components' = IF ensureOk THEN components \cup {comp}
                              ELSE components
             /\ IF ensureOk /\ createOk
                THEN /\ snapshot_components' = Append(snapshot_components,
                          [snapshot_id |-> r.recId, component |-> comp])
                     /\ s3' = [s3 EXCEPT ![p] =
                          S3AfterWrite(r, snap, r.idx + 1, "comps")]
                ELSE /\ snapshot_components' = snapshot_components
                     /\ s3' = [s3 EXCEPT ![p] = S3NextKey(r, "storeerr")]
    /\ S3Frame
    /\ UNCHANGED <<snapshots, snapshot_test_results>>

\* ingest: CreateSnapshotTestResult of one test result.
S3CreateSnapshotTestResult(p) ==
    /\ s3[p].pc = "results"
    /\ LET r == s3[p]
           snap == Manifest(Head(r.keys))
       IN  \E createOk \in BOOLEAN :
             IF createOk
             THEN /\ snapshot_test_results' = Append(snapshot_test_results,
                       [snapshot_id |-> r.recId,
                        scenario |-> snap.TestResults[r.idx],
                        total |-> r.summary[r.idx]])
                  /\ s3' = [s3 EXCEPT ![p] =
                       S3AfterWrite(r, snap, r.idx + 1, "results")]
             ELSE /\ snapshot_test_results' = snapshot_test_results
                  /\ s3' = [s3 EXCEPT ![p] = S3NextKey(r, "storeerr")]
    /\ S3Frame
    /\ UNCHANGED <<snapshots, components, snapshot_components>>

\* Upstream: a new snapshot object appears in the bucket.
Upload ==
    /\ \E k \in Range(AllKeys) \ bucket :
         /\ bucket' = bucket \cup {k}
         /\ s3' = [p \in Syncers |->
                     [s3[p] EXCEPT !.covered =
                        @ /\ Manifest(k).Snapshot \in SnapshotNames(snapshots)]]
    /\ UNCHANGED passes
    /\ S3NoWrite

S3Start ==
    /\ bucket = {}
    /\ snapshots = <<>>
    /\ components = {}
    /\ snapshot_components = <<>>
    /\ snapshot_test_results = <<>>
    /\ s3 = [p \in Syncers |-> S3Idle]
    /\ passes = 0

\* ===================================================================
\* Issue tracker: what its endpoints may answer
\* ===================================================================
Versions == <<"omr-v2.0.10", "quay-v3.16.2">>

\* Releases DiscoverActiveReleases may return, one per open tracking ticket,
\* in ticket order. Two tickets name the same fix version.
Tickets ==
    <<[FixVersion |-> "quay-v3.16.2", ReleaseTicketKey |-> "PROJQUAY-1",
       S3Application |-> "quay-v3-16", DueDate |-> 20],
      [FixVersion |-> "omr-v2.0.10", ReleaseTicketKey |-> "PROJQUAY-2",
       S3Application |-> "omr-v2-0", DueDate |-> 0],
      [FixVersion |-> "quay-v3.16.2", ReleaseTicketKey |-> "PROJQUAY-3",
       S3Application |-> "quay-v3-16", DueDate |-> 20]>>

DiscoverResults ==
    {SelectSeq(Tickets, LAMBDA t : t.ReleaseTicketKey \in ks) :
        ks \in {{}, {"PROJQUAY-1"}, {"PROJQUAY-2"},
                {"PROJQUAY-1", "PROJQUAY-2"}, {"PROJQUAY-1", "PROJQUAY-3"}}}

\* Version metadata GetVersion may return (VersionField); ReleaseDate 0 is "".
VersionInfos ==
    {[Description |-> "GA", ReleaseDate |-> 0, Released |-> FALSE,
      Archived |-> FALSE],
     [Description |-> "GA", ReleaseDate |-> 15, Released |-> TRUE,
      Archived |-> FALSE],
     [Description |-> "GA", ReleaseDate |-> 0, Released |-> FALSE,
      Archived |-> TRUE]}

\* GetVersion: (VersionField, nil), or (nil, err) when the request fails or
\* the project has no version of that name.
GetVersionResponses ==
    {[err |-> FALSE, info |-> v] : v \in VersionInfos}
       \cup {[err |-> TRUE,
               info |-> [Description |-> "", ReleaseDate |-> 0,
                         Released |-> FALSE, Archived |-> FALSE]]}

\* DiscoverActiveReleases: (releases, nil) or (nil, err).
DiscoverResponses ==
    {[err |-> FALSE, releases |-> r] : r \in DiscoverResults}
       \cup {[err |-> TRUE, releases |-> <<>>]}

IssueKeys == <<"PROJQUAY-10", "PROJQUAY-11">>
\* The status an issue may be returned with.
Statuses(k) == IF k = "PROJQUAY-10" THEN {"Open", "Closed"} ELSE {"Open"}

\* Issue lists SearchIssues may return, in key order.
SearchResults ==
    UNION {{[i \in 1..Len(ks) |-> [Key |-> ks[i], Status |-> st[ks[i]]]] :
              st \in {f \in [Range(ks) -> {"Open", "Closed"}] :
                         \A k \in Range(ks) : f[k] \in Statuses(k)}} :
           ks \in {SelectSeq(IssueKeys, LAMBDA k : k \in sub) :
                     sub \in SUBSET Range(IssueKeys)}}

\* SearchIssues: (issues, nil), or (nil, err) when any page fails.
SearchResponses ==
    {[err |-> FALSE, issues |-> r] : r \in SearchResults}
       \cup {[err |-> TRUE, issues |-> <<>>]}

\* ===================================================================
\* Persistent store: release_versions and jira_issues
\* ===================================================================
\* The given rows of a table (a bag), with their copies.
SelectRows(tbl, rows) ==
    [r \in rows |-> tbl[r]]

\* INSERT ... ON CONFLICT(name) DO UPDATE SET every other column.
UpsertReleaseVersion(tbl, rv) ==
    SelectRows(tbl, {r \in DOMAIN tbl : r.name # rv.name}) (+) SetToBag({rv})

\* Variant of ListActiveReleaseVersions without the WHERE clause: every
\* stored version, ORDER BY name.
ListActiveReleaseVersionsNoFilter(tbl) ==
    LET byName == SelectSeq(Versions, LAMBDA v : \E r \in DOMAIN tbl : r.name = v)
    IN  [i \in DOMAIN byName |-> CHOOSE r \in DOMAIN tbl : r.name = byName[i]]

\* WHERE released = 0 AND archived = 0 ORDER BY name.
ListActiveReleaseVersions(tbl) ==
    LET active == {r \in DOMAIN tbl : ~r.released /\ ~r.archived}
        byName == SelectSeq(Versions, LAMBDA v : \E r \in active : r.name = v)
    IN  [i \in DOMAIN byName |-> CHOOSE r \in active : r.name = byName[i]]

\* Variant of UpsertJiraIssue as a plain INSERT into a table without the
\* unique index on (key, fix_version).
UpsertJiraIssueInsertOnly(tbl, rec) ==
    tbl (+) SetToBag({rec})

\* INSERT ... ON CONFLICT(key, fix_version) DO UPDATE SET the other columns.
UpsertJiraIssue(tbl, rec) ==
    SelectRows(tbl, {r \in DOMAIN tbl :
        ~(r.key = rec.key /\ r.fix_version = rec.fix_version)})
      (+) SetToBag({rec})

\* Variant of DeleteJiraIssuesNotIn that returns at once for an empty key
\* list, deleting nothing.
DeleteJiraIssuesNotInSkipEmpty(tbl, fixVersion, keys) ==
    IF Len(keys) = 0 THEN tbl
    ELSE SelectRows(tbl, {r \in DOMAIN tbl :
            ~(r.fix_version = fixVersion /\ r.key \notin Range(keys))})

\* DELETE ... WHERE fix_version = ? AND key NOT IN (keys); with no keys,
\* DeleteAllJiraIssuesForVersion.
DeleteJiraIssuesNotIn(tbl, fixVersion, keys) ==
    IF Len(keys) = 0
    THEN SelectRows(tbl, {r \in DOMAIN tbl : r.fix_version # fixVersion})
    ELSE SelectRows(tbl, {r \in DOMAIN tbl :
            ~(r.fix_version = fixVersion /\ r.key \notin Range(keys))})

IssueKeysOf(tbl, fixVersion) ==
    {r.key : r \in {x \in DOMAIN tbl : x.fix_version = fixVersion}}

\* ===================================================================
\* JIRA syncer
\* ===================================================================
NoCall == [version |-> "", searched |-> FALSE, keys |-> {},
           writeErr |-> FALSE, wrote |-> FALSE]

\* What one cycle has done so far (reset when a cycle starts): asked is the
\* kinds of tracker requests it has made.
NoCycle == [discovered |-> {}, synced |-> {}, failed |-> {}, changed |-> {},
            reported |-> {}, upsertErr |-> {}, asked |-> {}]

\* What the release loop did for the release at hand, kept for the state
\* right after that iteration's GetVersion and UpsertReleaseVersion.
NoLookup == [version |-> "", noInfo |-> FALSE, upsertErr |-> FALSE]

JsIdle ==
    [pc |-> "idle", releases |-> <<>>, activeSet |-> {}, dbVersions |-> <<>>,
     ret |-> "", fixVersion |-> "", issues |-> <<>>, keys |-> <<>>,
     call |-> NoCall, last |-> NoCall, lookup |-> NoLookup, done |-> FALSE,
     aborted |-> FALSE, cyc |-> NoCycle]

\* model.ReleaseVersion as SyncOnce builds it for a discovered release:
\* the ticket's fields, overlaid with the version metadata when the lookup
\* succeeded (info is GetVersion's response).
DiscoveredReleaseVersion(rel, info) ==
    [name |-> rel.FixVersion,
     description |-> IF info.err THEN "" ELSE info.info.Description,
     release_date |-> IF info.err THEN 0 ELSE info.info.ReleaseDate,
     released |-> IF info.err THEN FALSE ELSE info.info.Released,
     archived |-> IF info.err THEN FALSE ELSE info.info.Archived,
     release_ticket_key |-> rel.ReleaseTicketKey,
     s3_application |-> rel.S3Application,
     due_date |-> rel.DueDate]

\* The stored row of a version that reconciliation found released/archived.
ReconciledReleaseVersion(dbv, info) ==
    [dbv EXCEPT !.released = info.Released, !.archived = info.Archived,
                !.release_date = IF info.ReleaseDate # 0
                                 THEN info.ReleaseDate ELSE @]

\* The step after the discovered releases: the reconciliation of the stored
\* versions starts with ListActiveReleaseVersions.
JsAfterReleases(r) ==
    IF Len(r.releases) > 1
    THEN [r EXCEPT !.pc = "release", !.releases = Tail(r.releases)]
    ELSE [r EXCEPT !.pc = "list", !.releases = <<>>]

JsAfterReconcile(r) ==
    IF Len(r.dbVersions) > 1
    THEN [r EXCEPT !.pc = "reconcile", !.dbVersions = Tail(r.dbVersions)]
    ELSE [r EXCEPT !.pc = "idle", !.dbVersions = <<>>, !.done = TRUE]

\* syncVersion returns: back to the loop that called it.
JsReturn(r) ==
    LET q == [r EXCEPT !.last = r.call, !.call = NoCall, !.fixVersion = "",
                       !.issues = <<>>, !.keys = <<>>, !.ret = "",
                       !.cyc.synced = @ \cup {r.fixVersion}]
    IN  IF r.ret = "release" THEN JsAfterReleases(q) ELSE JsAfterReconcile(q)

\* syncVersion is called for fixVersion from the loop named by ret.
JsCall(r, fixVersion, ret) ==
    [r EXCEPT !.pc = "search", !.fixVersion = fixVersion, !.ret = ret,
              !.call = [NoCall EXCEPT !.version = fixVersion]]

\* Every step of the syncer leaves the state right after a syncVersion call.
JsStep == [js EXCEPT !.last = NoCall, !.lookup = NoLookup]

JiraFrame == UNCHANGED cycles

\* Variant of the entry of SyncOnce that treats a failed discovery as an
\* empty one and goes on to the reconciliation of the stored versions.
JiraSyncOnceReconcileOnErr ==
    /\ js.pc = "idle"
    /\ cycles < MaxCycles
    /\ cycles' = cycles + 1
    /\ \E res \in DiscoverResponses :
         js' = LET rels == res.releases
                   r == [JsIdle EXCEPT !.releases = rels,
                            !.aborted = res.err,
                            !.cyc.asked = {"discover"},
                            !.cyc.discovered =
                               {rels[i].FixVersion : i \in DOMAIN rels}]
               IN  IF rels = <<>> THEN [r EXCEPT !.pc = "list"]
                   ELSE [r EXCEPT !.pc = "release"]
    /\ UNCHANGED <<release_versions, jira_issues>>

\* SyncOnce, entry: DiscoverActiveReleases; an error ends the cycle.
JiraSyncOnce ==
    /\ js.pc = "idle"
    /\ cycles < MaxCycles
    /\ cycles' = cycles + 1
    /\ \E res \in DiscoverResponses :
         js' = IF res.err
               THEN [JsIdle EXCEPT !.aborted = TRUE,
                                   !.cyc.asked = {"discover"}]
               ELSE LET rels == res.releases
                        r == [JsIdle EXCEPT !.releases = rels,
                                 !.cyc.asked = {"discover"},
                                 !.cyc.discovered =
                                    {rels[i].FixVersion : i \in DOMAIN rels}]
                    IN  IF rels = <<>> THEN [r EXCEPT !.pc = "list"]
                        ELSE [r EXCEPT !.pc = "release"]
    /\ UNCHANGED <<release_versions, jira_issues>>

\* Variant of the release loop that skips a release whose metadata lookup
\* failed ("continue"): no record, no issue sync.
JiraUpsertDiscoveredSkipNoInfo ==
    /\ js.pc = "release"
    /\ LET rel == Head(js.releases)
       IN  \E resp \in GetVersionResponses, storeOk \in BOOLEAN :
             /\ release_versions' =
                   IF storeOk /\ ~resp.err
                   THEN UpsertReleaseVersion(release_versions,
                           DiscoveredReleaseVersion(rel, resp))
                   ELSE release_versions
             /\ LET r == [JsStep EXCEPT
                            !.activeSet = @ \cup {rel.FixVersion},
                            !.cyc.asked = @ \cup {"version"},
                            !.lookup = [version |-> rel.FixVersion,
                                        noInfo |-> resp.err,
                                        upsertErr |-> ~storeOk]]
                IN  js' = IF resp.err THEN JsAfterReleases(r)
                          ELSE JsCall(r, rel.FixVersion, "release")
    /\ JiraFrame
    /\ UNCHANGED jira_issues

\* SyncOnce, discovered release: GetVersion, UpsertReleaseVersion, then
\* syncVersion.
JiraUpsertDiscovered ==
    /\ js.pc = "release"
    /\ LET rel == Head(js.releases)
       IN  \E resp \in GetVersionResponses, storeOk \in BOOLEAN :
             /\ release_versions' =
                   IF storeOk
                   THEN UpsertReleaseVersion(release_versions,
                           DiscoveredReleaseVersion(rel, resp))
                   ELSE release_versions
             /\ js' = JsCall([JsStep EXCEPT
                                !.activeSet = @ \cup {rel.FixVersion},
                                !.cyc.asked = @ \cup {"version"},
                                !.lookup = [version |-> rel.FixVersion,
                                            noInfo |-> resp.err,
                                            upsertErr |-> ~storeOk]],
                             rel.FixVersion, "release")
    /\ JiraFrame
    /\ UNCHANGED jira_issues

\* Variant of the entry of syncVersion that treats a failed search as an
\* empty result instead of returning.
JiraSearchIssuesIgnoreErr ==
    /\ js.pc = "search"
    /\ \E res \in SearchResponses :
         js' = IF res.err \/ res.issues = <<>>
               THEN [JsStep EXCEPT !.pc = "delete",
                       !.call.searched = ~res.err,
                       !.cyc.asked = @ \cup {"search"},
                       !.cyc.failed = IF res.err
                                      THEN @ \cup {js.fixVersion} ELSE @]
               ELSE [JsStep EXCEPT !.pc = "upsert", !.issues = res.issues,
                                   !.cyc.asked = @ \cup {"search"},
                                   !.call.searched = TRUE]
    /\ JiraFrame
    /\ UNCHANGED <<release_versions, jira_issues>>

\* Variant of the entry of syncVersion that replaces the issues of the
\* version: it deletes every stored row of the version once the search has
\* returned, and the issue loop then inserts the result.
JiraSearchIssuesClearFirst ==
    /\ js.pc = "search"
    /\ \E res \in SearchResponses :
         /\ js' = IF res.err
                  THEN JsReturn([JsStep EXCEPT
                                    !.cyc.asked = @ \cup {"search"},
                                    !.cyc.failed = @ \cup {js.fixVersion}])
                  ELSE IF res.issues = <<>>
                  THEN [JsStep EXCEPT !.pc = "delete", !.call.searched = TRUE,
                                      !.cyc.asked = @ \cup {"search"}]
                  ELSE [JsStep EXCEPT !.pc = "upsert", !.issues = res.issues,
                                      !.cyc.asked = @ \cup {"search"},
                                      !.call.searched = TRUE]
         /\ jira_issues' = IF res.err THEN jira_issues
                           ELSE DeleteJiraIssuesNotIn(jira_issues,
                                                      js.fixVersion, <<>>)
    /\ JiraFrame
    /\ UNCHANGED release_versions

\* syncVersion, entry: SearchIssues; an error (on any page) returns.
JiraSearchIssues ==
    /\ js.pc = "search"
    /\ \E res \in SearchResponses :
         js' = IF res.err
               THEN JsReturn([JsStep EXCEPT
                                 !.cyc.asked = @ \cup {"search"},
                                 !.cyc.failed = @ \cup {js.fixVersion}])
               ELSE IF res.issues = <<>>
               THEN [JsStep EXCEPT !.pc = "delete", !.call.searched = TRUE,
                                   !.cyc.asked = @ \cup {"search"}]
               ELSE [JsStep EXCEPT !.pc = "upsert", !.issues = res.issues,
                                   !.cyc.asked = @ \cup {"search"},
                                   !.call.searched = TRUE]
    /\ JiraFrame
    /\ UNCHANGED <<release_versions, jira_issues>>

\* syncVersion, issue loop: the key is recorded, then UpsertJiraIssue (an
\* error is logged and the loop goes on).
JiraUpsertJiraIssue ==
    /\ js.pc = "upsert"
    /\ LET issue == Head(js.issues)
           rec == [key |-> issue.Key, fix_version |-> js.fixVersion,
                   status |-> issue.Status]
       IN  \E storeOk \in BOOLEAN :
             /\ jira_issues' = IF storeOk THEN UpsertJiraIssue(jira_issues, rec)
                               ELSE jira_issues
             /\ js' = [JsStep EXCEPT
                         !.pc = IF Len(js.issues) > 1 THEN "upsert"
                                ELSE "delete",
                         !.issues = Tail(js.issues),
                         !.keys = Append(js.keys, issue.Key),
                         !.call.keys = @ \cup {issue.Key},
                         !.call.writeErr = @ \/ ~storeOk,
                         !.call.wrote = @ \/ jira_issues' # jira_issues,
                         !.cyc.changed = IF jira_issues' # jira_issues
                                         THEN @ \cup {js.fixVersion} ELSE @]
    /\ JiraFrame
    /\ UNCHANGED release_versions

\* syncVersion, end: DeleteJiraIssuesNotIn, then return.
JiraDeleteJiraIssuesNotIn ==
    /\ js.pc = "delete"
    /\ \E storeOk \in BOOLEAN :
         /\ jira_issues' =
               IF storeOk
               THEN DeleteJiraIssuesNotIn(jira_issues, js.fixVersion, js.keys)
               ELSE jira_issues
         /\ js' = JsReturn([JsStep EXCEPT
                     !.call.writeErr = @ \/ ~storeOk,
                     !.call.wrote = @ \/ jira_issues' # jira_issues,
                     !.cyc.changed = IF jira_issues' # jira_issues
                                     THEN @ \cup {js.fixVersion} ELSE @])
    /\ JiraFrame
    /\ UNCHANGED release_versions

\* SyncOnce, reconciliation: ListActiveReleaseVersions; an error ends the
\* cycle.
JiraListActiveReleaseVersions ==
    /\ js.pc = "list"
    /\ \E storeOk \in BOOLEAN :
         LET dbVersions == ListActiveReleaseVersions(release_versions)
         IN  js' = IF storeOk /\ dbVersions # <<>>
                   THEN [JsStep EXCEPT !.pc = "reconcile",
                                       !.dbVersions = dbVersions]
                   ELSE [JsStep EXCEPT !.pc = "idle", !.done = TRUE]
    /\ JiraFrame
    /\ UNCHANGED <<release_versions, jira_issues>>

\* Variant of the reconciliation that updates the record of a version found
\* released or archived without syncing its issues again.
JiraReconcileNoSync ==
    /\ js.pc = "reconcile"
    /\ LET dbv == Head(js.dbVersions)
       IN  \E resp \in GetVersionResponses, storeOk \in BOOLEAN :
             IF dbv.name \in js.activeSet \/ resp.err
                \/ ~(resp.info.Released \/ resp.info.Archived)
             THEN /\ js' = JsAfterReconcile([JsStep EXCEPT
                        !.cyc.asked = IF dbv.name \in js.activeSet THEN @
                                      ELSE @ \cup {"version"}])
                  /\ UNCHANGED release_versions
             ELSE /\ release_versions' =
                        IF storeOk
                        THEN UpsertReleaseVersion(release_versions,
                                ReconciledReleaseVersion(dbv, resp.info))
                        ELSE release_versions
                  /\ js' = JsAfterReconcile([JsStep EXCEPT
                        !.cyc.asked = @ \cup {"version"},
                        !.cyc.reported = IF resp.info.Released
                                         THEN @ \cup {dbv.name} ELSE @,
                        !.cyc.upsertErr = IF storeOk THEN @
                                          ELSE @ \cup {dbv.name}])
    /\ JiraFrame
    /\ UNCHANGED jira_issues

\* SyncOnce, reconciliation of one stored active version: skipped when it was
\* discovered in this cycle or its lookup fails; when the lookup reports it
\* released or archived, UpsertReleaseVersion and syncVersion.
JiraReconcile ==
    /\ js.pc = "reconcile"
    /\ LET dbv == Head(js.dbVersions)
       IN  \E resp \in GetVersionResponses, storeOk \in BOOLEAN :
             IF dbv.name \in js.activeSet \/ resp.err
                \/ ~(resp.info.Released \/ resp.info.Archived)
             THEN /\ js' = JsAfterReconcile([JsStep EXCEPT
                        !.cyc.asked = IF dbv.name \in js.activeSet THEN @
                                      ELSE @ \cup {"version"}])
                  /\ UNCHANGED release_versions
             ELSE /\ release_versions' =
                        IF storeOk
                        THEN UpsertReleaseVersion(release_versions,
                                ReconciledReleaseVersion(dbv, resp.info))
                        ELSE release_versions
                  /\ js' = JsCall([JsStep EXCEPT
                        !.cyc.asked = @ \cup {"version"},
                        !.cyc.reported = IF resp.info.Released
                                         THEN @ \cup {dbv.name} ELSE @,
                        !.cyc.upsertErr = IF storeOk THEN @
                                          ELSE @ \cup {dbv.name}],
                        dbv.name, "reconcile")
    /\ JiraFrame
    /\ UNCHANGED jira_issues

JiraStart ==
    /\ release_versions = EmptyBag
    /\ jira_issues = EmptyBag
    /\ js = JsIdle
    /\ cycles = 0

\* ===================================================================
\* Issue-tracker client: doGetWithRetry
\* ===================================================================
maxRetries == 3

Min(a, b) == IF a < b THEN a ELSE b

\* math.Pow(2, attempt)
RECURSIVE Pow2(_)
Pow2(n) == IF n = 0 THEN 1 ELSE 2 * Pow2(n - 1)

\* c.minDelay, in seconds.
MinDelays == {0, 1}

\* Retry-After header values of a rate-limit response.
RetryAfterHeaders == {"", "2", "soon"}

\* parseRetryAfter: "" and a value strconv.Atoi rejects give 0.
parseRetryAfter(retryAfter) ==
    IF retryAfter = "" THEN 0
    ELSE IF retryAfter = "2" THEN 2
    ELSE 0

\* What the server answers once its rate-limit responses are over.
AfterKinds == {"ok", "error"}

\* doGet for the n-th request to a server whose first k responses are
\* rate-limit responses: "ratelimit" is a *rateLimitError, "error" any other
\* error, "ok" a body.
doGet(n, k, after) == IF n <= k THEN "ratelimit" ELSE after

RetryIdle ==
    [pc |-> "idle", k |-> 0, after |-> "ok", header |-> "", minDelay |-> 0,
     attempt |-> 0, requests |-> 0, slept |-> 0, waited |-> 0,
     result |-> ""]

RetryReturn(r, result) == [r EXCEPT !.pc = "done", !.result = result]

\* Top of the attempt loop: the loop condition, then the delay before the
\* request (minDelay on the first attempt when set, 2^attempt seconds on a
\* retry), which a cancelled context cuts short.
RetryDelay ==
    /\ rt.pc = "loop"
    /\ \E ctxDone \in BOOLEAN :
         rt' = IF rt.attempt > maxRetries
               THEN RetryReturn(rt, "maxretries")
               ELSE IF rt.attempt > 0 \/ rt.minDelay > 0
               THEN IF ctxDone THEN RetryReturn(rt, "ctx")
                    ELSE [rt EXCEPT !.pc = "doGet",
                            !.slept = @ + (IF rt.attempt > 0
                                           THEN Pow2(rt.attempt)
                                           ELSE rt.minDelay),
                            !.waited = @ + (IF rt.attempt > 0
                                            THEN Pow2(rt.attempt)
                                            ELSE rt.minDelay)]
               ELSE [rt EXCEPT !.pc = "doGet"]
    /\ UNCHANGED <<sr, ev, pv>>

\* Variant of the request step that returns every error at once, a
\* rate-limit error included.
RetryDoGetNoRetry ==
    /\ rt.pc = "doGet"
    /\ LET resp == doGet(rt.requests + 1, rt.k, rt.after)
           r == [rt EXCEPT !.requests = @ + 1, !.waited = 0]
       IN  rt' = IF resp = "ok" THEN RetryReturn(r, "body")
                 ELSE RetryReturn(r, resp)
    /\ UNCHANGED <<sr, ev, pv>>

\* Variant of the request step that retries every error below the ceiling,
\* whatever its kind.
RetryDoGetRetryAll ==
    /\ rt.pc = "doGet"
    /\ LET resp == doGet(rt.requests + 1, rt.k, rt.after)
           r == [rt EXCEPT !.requests = @ + 1, !.waited = 0]
       IN  rt' = IF resp = "ok" THEN RetryReturn(r, "body")
                 ELSE IF rt.attempt < maxRetries
                 THEN IF parseRetryAfter(rt.header) > 0
                      THEN [r EXCEPT !.pc = "retryAfter"]
                      ELSE [r EXCEPT !.pc = "loop", !.attempt = @ + 1]
                 ELSE RetryReturn(r, resp)
    /\ UNCHANGED <<sr, ev, pv>>

\* The request: a body is returned; a rate-limit error below the ceiling is
\* retried; every other error is returned.
RetryDoGet ==
    /\ rt.pc = "doGet"
    /\ LET resp == doGet(rt.requests + 1, rt.k, rt.after)
           r == [rt EXCEPT !.requests = @ + 1, !.waited = 0]
       IN  rt' = IF resp = "ok" THEN RetryReturn(r, "body")
                 ELSE IF resp = "ratelimit" /\ rt.attempt < maxRetries
                 THEN IF parseRetryAfter(rt.header) > 0
                      THEN [r EXCEPT !.pc = "retryAfter"]
                      ELSE [r EXCEPT !.pc = "loop", !.attempt = @ + 1]
                 ELSE RetryReturn(r, resp)
    /\ UNCHANGED <<sr, ev, pv>>

\* The wait for the server's Retry-After hint, which a cancelled context
\* cuts short; then "continue".
RetryAfterWait ==
    /\ rt.pc = "retryAfter"
    /\ \E ctxDone \in BOOLEAN :
         rt' = IF ctxDone THEN RetryReturn(rt, "ctx")
               ELSE [rt EXCEPT !.pc = "loop", !.attempt = @ + 1,
                               !.slept = @ + parseRetryAfter(rt.header),
                               !.waited = @ + parseRetryAfter(rt.header)]
    /\ UNCHANGED <<sr, ev, pv>>

\* A call of doGetWithRetry starts against some server.
RetryCalls ==
    {[RetryIdle EXCEPT !.pc = "loop", !.k = k, !.after = a, !.header = h,
                       !.minDelay = d] :
        k \in 0..MaxLimited, a \in AfterKinds, h \in RetryAfterHeaders,
        d \in MinDelays}

\* ===================================================================
\* Issue-tracker client: the paging loop of SearchIssues and
\* DiscoverActiveReleases
\* ===================================================================
maxResults == 100

\* The page a server answers with: the issues from offset startAt on, at
\* most its own page size and at most the maxResults asked for. Issues are
\* numbered 1..total in server order.
ServerPage(total, pageSize, startAt, limit) ==
    LET left == IF total > startAt THEN total - startAt ELSE 0
    IN  [i \in 1..Min(Min(pageSize, limit), left) |-> startAt + i]

\* Variant of the cursor that advances by the page size asked for.
NextStartAtByMaxResults(startAt, n) == startAt + maxResults

\* startAt += len(resp.Issues)
NextStartAt(startAt, n) == startAt + n

SearchIdle ==
    [pc |-> "idle", fn |-> "", total |-> 0, pageSize |-> 1, startAt |-> 0,
     calls |-> 0, allIssues |-> <<>>, err |-> FALSE]

\* One iteration of the paging loop: the request (any failure returns the
\* error and no issues), the append, the break test, the cursor.
PageStep(r) ==
    \E ok \in BOOLEAN :
       LET page == ServerPage(r.total, r.pageSize, r.startAt, maxResults)
           q == [r EXCEPT !.calls = @ + 1]
       IN  sr' = IF ~ok
                 THEN [q EXCEPT !.pc = "done", !.err = TRUE,
                                !.allIssues = <<>>]
                 ELSE IF r.startAt + Len(page) >= r.total
                 THEN [q EXCEPT !.pc = "done",
                                !.allIssues = @ \o page]
                 ELSE [q EXCEPT !.allIssues = @ \o page,
                                !.startAt = NextStartAt(@, Len(page))]

SearchIssuesPage ==
    /\ sr.pc = "page" /\ sr.fn = "SearchIssues"
    /\ PageStep(sr)
    /\ UNCHANGED <<rt, ev, pv>>

DiscoverActiveReleasesPage ==
    /\ sr.pc = "page" /\ sr.fn = "DiscoverActiveReleases"
    /\ PageStep(sr)
    /\ UNCHANGED <<rt, ev, pv>>

\* A search starts against a server with some total and page size.
SearchCalls ==
    {[SearchIdle EXCEPT !.pc = "page", !.fn = f, !.total = t,
                        !.pageSize = ps] :
        f \in {"SearchIssues", "DiscoverActiveReleases"},
        t \in 0..MaxTotal, ps \in 1..MaxPage}

\* ---- the paging loop against any server
\* A search before its first request: startAt and allIssues as in the loop,
\* total and n the "total" and the number of issues of the last response,
\* calls the requests sent (counted up to MaxCalls).
AnyIdle ==
    [pc |-> "idle", fn |-> "", startAt |-> 0, allIssues |-> <<>>,
     total |-> 0, n |-> 0, failed |-> FALSE, calls |-> 0, err |-> FALSE]

\* Top of the loop: the request for the page at startAt. The server answers
\* with an error (doGetWithRetry fails, or the body does not decode), or
\* with any number of issues up to its page size and any total.
AnyRequest ==
    /\ sr.pc = "page"
    /\ \E ok \in BOOLEAN, n \in 0..Min(MaxPage, maxResults),
          total \in 0..MaxTotal :
         sr' = [sr EXCEPT !.pc = "resp", !.failed = ~ok, !.n = n,
                          !.total = total,
                          !.calls = Min(@ + 1, MaxCalls)]
    /\ UNCHANGED <<rt, ev, pv>>

\* The rest of the iteration: return the error; else append, break when
\* startAt + len(resp.Issues) >= resp.Total, else advance startAt and loop.
AnyResponse ==
    /\ sr.pc = "resp"
    /\ LET page == [i \in 1..sr.n |-> sr.startAt + i]
       IN  sr' = IF sr.failed
                 THEN [sr EXCEPT !.pc = "done", !.err = TRUE,
                                 !.allIssues = <<>>]
                 ELSE IF sr.startAt + Len(page) >= sr.total
                 THEN [sr EXCEPT !.pc = "done", !.allIssues = @ \o page]
                 ELSE [sr EXCEPT !.pc = "page", !.allIssues = @ \o page,
                                 !.startAt = NextStartAt(@, Len(page))]
    /\ UNCHANGED <<rt, ev, pv>>

AnyCalls ==
    {[AnyIdle EXCEPT !.pc = "page", !.fn = f] :
        f \in {"SearchIssues", "DiscoverActiveReleases"}}

\* ===================================================================
\* Readiness evaluator: computeReadiness
\* ===================================================================
\* time.Now(), in hours.
Nows == {1000}

\* Due dates, in hours from now.
DueOffsets == {-25, -1, 0, 1, 71, 72, 95, 96, 97, 120}

\* Open-issue counts of an issue summary.
OpenCounts == {0, 3}

\* int(x / y) for a float quotient: truncation toward zero.
TruncDiv(x, y) == IF x >= 0 THEN x \div y ELSE -((-x) \div y)

Readiness(signal, message, days) ==
    [Signal |-> signal, Message |-> message, Days |-> days]

\* Variant of computeReadiness that looks at tests and issues before the
\* due date.
computeReadinessTestsFirst(release, issueSummary, testsPassed, now) ==
    LET openIssues == ~issueSummary.isNil /\ issueSummary.Open > 0
        daysUntil == TruncDiv(release.DueDate.at - now, 24)
    IN  IF release.Released THEN Readiness("green", "Released", 0)
        ELSE IF ~testsPassed /\ openIssues
        THEN Readiness("red", "Tests failing and open issues remain", 0)
        ELSE IF ~testsPassed
        THEN Readiness("yellow", "Integration tests failing", 0)
        ELSE IF openIssues
        THEN Readiness("yellow", "Open issues remain", 0)
        ELSE IF ~release.DueDate.isNil /\ now > release.DueDate.at
        THEN Readiness("red", "Past due date", 0)
        ELSE IF ~release.DueDate.isNil /\ daysUntil <= 3
        THEN Readiness("yellow", "Due date in %d days", daysUntil)
        ELSE Readiness("green", "All checks passing", 0)

\* Variant of computeReadiness that counts a started day as a day
\* (daysUntil rounded up instead of truncated).
computeReadinessCeilDays(release, issueSummary, testsPassed, now) ==
    LET openIssues == ~issueSummary.isNil /\ issueSummary.Open > 0
        daysUntil == TruncDiv(release.DueDate.at - now + 23, 24)
    IN  IF release.Released THEN Readiness("green", "Released", 0)
        ELSE IF ~release.DueDate.isNil /\ now > release.DueDate.at
        THEN Readiness("red", "Past due date", 0)
        ELSE IF ~testsPassed /\ openIssues
        THEN Readiness("red", "Tests failing and open issues remain", 0)
        ELSE IF ~testsPassed
        THEN Readiness("yellow", "Integration tests failing", 0)
        ELSE IF openIssues
        THEN Readiness("yellow", "Open issues remain", 0)
        ELSE IF ~release.DueDate.isNil /\ daysUntil <= 3
        THEN Readiness("yellow", "Due date in %d days", daysUntil)
        ELSE Readiness("green", "All checks passing", 0)

\* computeReadiness; Days is the %d of "Due date in %d days" (0 elsewhere).
computeReadiness(release, issueSummary, testsPassed, now) ==
    LET openIssues == ~issueSummary.isNil /\ issueSummary.Open > 0
        daysUntil == TruncDiv(release.DueDate.at - now, 24)
    IN  IF release.Released THEN Readiness("green", "Released", 0)
        ELSE IF ~release.DueDate.isNil /\ now > release.DueDate.at
        THEN Readiness("red", "Past due date", 0)
        ELSE IF ~testsPassed /\ openIssues
        THEN Readiness("red", "Tests failing and open issues remain", 0)
        ELSE IF ~testsPassed
        THEN Readiness("yellow", "Integration tests failing", 0)
        ELSE IF openIssues
        THEN Readiness("yellow", "Open issues remain", 0)
        ELSE IF ~release.DueDate.isNil /\ daysUntil <= 3
        THEN Readiness("yellow", "Due date in %d days", daysUntil)
        ELSE Readiness("green", "All checks passing", 0)

EvalIdle ==
    [pc |-> "idle",
     release |-> [Released |-> FALSE, DueDate |-> [isNil |-> TRUE, at |-> 0]],
     issueSummary |-> [isNil |-> TRUE, Open |-> 0],
     testsPassed |-> FALSE, now |-> 0,
     readiness |-> Readiness("", "", 0)]

\* The evaluator is called.
Evaluate ==
    /\ ev.pc = "call"
    /\ ev' = [ev EXCEPT !.pc = "done",
                !.readiness = computeReadiness(ev.release, ev.issueSummary,
                                               ev.testsPassed, ev.now)]
    /\ UNCHANGED <<rt, sr, pv>>

\* The arguments of a call.
EvalCalls ==
    {[EvalIdle EXCEPT !.pc = "call", !.now = now, !.testsPassed = tp,
                      !.release = [Released |-> rel, DueDate |-> due],
                      !.issueSummary = summ] :
        now \in Nows, tp \in BOOLEAN, rel \in BOOLEAN,
        due \in {[isNil |-> TRUE, at |-> 0]}
                  \cup {[isNil |-> FALSE, at |-> n + d] :
                          n \in Nows, d \in DueOffsets},
        summ \in {[isNil |-> TRUE, Open |-> 0]}
                   \cup {[isNil |-> FALSE, Open |-> o] : o \in OpenCounts}}

\* ===================================================================
\* Discovery: from a ticket summary to a release
\* ===================================================================
\* Strings are sequences of one-character strings.
Uppers == <<"A", "B", "C", "D", "E", "F", "G", "H", "I", "J", "K", "L", "M",
            "N", "O", "P", "Q", "R", "S", "T", "U", "V", "W", "X", "Y", "Z">>
Lowers == <<"a", "b", "c", "d", "e", "f", "g", "h", "i", "j", "k", "l", "m",
            "n", "o", "p", "q", "r", "s", "t", "u", "v", "w", "x", "y", "z">>
Digits == {"0", "1", "2", "3", "4", "5", "6", "7", "8", "9"}

\* \w, \s and \d of the pattern.
WordChars == Range(Uppers) \cup Range(Lowers) \cup Digits \cup {"_"}
IsWord(c) == c \in WordChars
IsSpace(c) == c \in {" ", "\t", "\n", "\f", "\r"}
IsDigit(c) == c \in Digits
InClass(c, class) ==
    CASE class = "w" -> IsWord(c)
      [] class = "s" -> IsSpace(c)
      [] class = "d" -> IsDigit(c)

\* strings.ToLower
LowerChar(c) ==
    IF c \in Range(Uppers)
    THEN Lowers[CHOOSE i \in DOMAIN Uppers : Uppers[i] = c]
    ELSE c
ToLower(s) == [i \in DOMAIN s |-> LowerChar(s[i])]

\* The words ticket summaries are made of.
Tokens ==
    {<<"R", "e", "l", "e", "a", "s", "e">>,
     <<"Q", "u", "a", "y">>,
     <<"O", "M", "R">>,
     <<"v", "3", ".", "1", "6", ".", "2">>,
     <<"3", ".", "1", "6", ".", "2">>,
     <<"v", "2", ".", "0", ".", "1", "0">>,
     <<"3", ".", "1", "6">>,
     <<"v", "e", "r", "s", "i", "o", "n">>}

RECURSIVE JoinWords(_)
JoinWords(ws) ==
    IF Len(ws) = 1 THEN ws[1] ELSE ws[1] \o <<" ">> \o JoinWords(Tail(ws))

\* Ticket summaries: 1..MaxTokens words separated by one space.
Summaries ==
    UNION {{JoinWords(ws) : ws \in [1..n -> Tokens]} : n \in 1..MaxTokens}

\* The end of the longest run of one character class that starts at
\* position i (i - 1 when s[i] is not of the class). The pattern's
\* repetitions are greedy, and in this pattern only the longest run can be
\* followed by what the pattern asks for next: a shorter run of \w, \s or
\* \d is followed by a character of the same class.
RECURSIVE RunEnd(_, _, _)
RunEnd(s, i, class) ==
    IF i <= Len(s) /\ InClass(s[i], class) THEN RunEnd(s, i + 1, class)
    ELSE i - 1

\* (?:\.\d+)? after the second number, which ends at e2: the end of the
\* match.
MatchPatch(s, e2) ==
    IF e2 + 1 <= Len(s) /\ s[e2 + 1] = "." /\ RunEnd(s, e2 + 2, "d") > e2 + 1
    THEN RunEnd(s, e2 + 2, "d")
    ELSE e2

\* \.\d+(?:\.\d+)? after the first number, which ends at e1: the end of the
\* match, 0 when there is none.
MatchMinor(s, e1) ==
    IF e1 + 1 <= Len(s) /\ s[e1 + 1] = "." /\ RunEnd(s, e1 + 2, "d") > e1 + 1
    THEN MatchPatch(s, RunEnd(s, e1 + 2, "d"))
    ELSE 0

\* \d+\.\d+(?:\.\d+)? from position q: the end of the match, 0 when there
\* is none.
MatchVersion(s, q) ==
    IF RunEnd(s, q, "d") >= q THEN MatchMinor(s, RunEnd(s, q, "d")) ELSE 0

Span(from, to) == [from |-> IF to > 0 THEN from ELSE 0, to |-> to]

\* v?(\d+\.\d+(?:\.\d+)?) from position p, case-insensitive: the span of
\* the version group, to = 0 when there is no match.
MatchRest(s, p) ==
    IF p <= Len(s) /\ LowerChar(s[p]) = "v" /\ MatchVersion(s, p + 1) > 0
    THEN Span(p + 1, MatchVersion(s, p + 1))
    ELSE Span(p, MatchVersion(s, p))

NoMatch == [ok |-> FALSE, product |-> <<>>, version |-> <<>>]

\* The match from position i, given the span rest of the version group
\* behind a product group s[i..j] (j < i: no product group).
Submatch(s, i, j, rest) ==
    IF rest.to > 0
    THEN [ok |-> TRUE, product |-> SubSeq(s, i, j),
          version |-> SubSeq(s, rest.from, rest.to)]
    ELSE NoMatch

\* The alternative without the product group.
MatchPlain(s, i) == Submatch(s, i, i - 1, MatchRest(s, i))

\* The alternative with the product group (\w+)\s+, the word ending at j.
MatchGrouped(s, i, j) ==
    IF j >= i /\ RunEnd(s, j + 1, "s") > j
    THEN Submatch(s, i, j, MatchRest(s, RunEnd(s, j + 1, "s") + 1))
    ELSE NoMatch

\* The first of two alternatives that matches.
FirstMatch(m1, m2) == IF m1.ok THEN m1 ELSE m2

\* The whole pattern from position i: the alternative with the product
\* group is preferred.
MatchAt(s, i) ==
    FirstMatch(MatchGrouped(s, i, RunEnd(s, i, "w")), MatchPlain(s, i))

\* The match at the leftmost position from i on that has one.
RECURSIVE FindFrom(_, _)
FindFrom(s, i) ==
    IF i > Len(s) THEN NoMatch
    ELSE FirstMatch(MatchAt(s, i), FindFrom(s, i + 1))

\* versionRe.FindStringSubmatch
versionRe(s) == FindFrom(s, 1)

LowerProduct(m) == [m EXCEPT !.product = ToLower(m.product)]

ParseVersionFromSummary(summary) == LowerProduct(versionRe(summary))

\* strings.Index(s, "-v"), counted from 0; -1 when absent.
IndexDashV(s) ==
    LET at == {i \in 1..(Len(s) - 1) : s[i] = "-" /\ s[i + 1] = "v"}
    IN  IF at = {} THEN -1 ELSE (CHOOSE i \in at : \A x \in at : i <= x) - 1

\* strings.Split(s, ".")
RECURSIVE SplitDots(_)
SplitDots(s) ==
    LET dots == {i \in DOMAIN s : s[i] = "."}
        d == CHOOSE i \in dots : \A x \in dots : i <= x
    IN  IF dots = {} THEN <<s>>
        ELSE <<SubSeq(s, 1, d - 1)>> \o SplitDots(SubSeq(s, d + 1, Len(s)))

QuayV == <<"q", "u", "a", "y", "-", "v">>

\* Variant of FixVersionToS3App that keeps the patch part in the name.
FixVersionToS3AppWithPatch(fixVersion) ==
    LET parts == SplitDots(fixVersion)
    IN  IF Len(parts) >= 3
        THEN QuayV \o parts[1] \o <<"-">> \o parts[2] \o <<"-">> \o parts[3]
        ELSE IF Len(parts) >= 2
        THEN QuayV \o parts[1] \o <<"-">> \o parts[2]
        ELSE <<>>

FixVersionToS3App(fixVersion) ==
    LET idx == IndexDashV(fixVersion)
        product == SubSeq(fixVersion, 1, idx)
        version == SubSeq(fixVersion, idx + 3, Len(fixVersion))
        vparts == SplitDots(version)
        parts == SplitDots(fixVersion)
    IN  IF idx > 0
        THEN IF Len(vparts) >= 2
             THEN product \o <<"-", "v">> \o vparts[1] \o <<"-">> \o vparts[2]
             ELSE <<>>
        ELSE IF Len(parts) >= 2
        THEN QuayV \o parts[1] \o <<"-">> \o parts[2]
        ELSE <<>>

ReleaseWord == <<"r", "e", "l", "e", "a", "s", "e">>

\* The fix version of a parsed summary (DiscoverActiveReleases).
FixVersionOf(product, version) ==
    IF product # <<>> /\ product # ReleaseWord
    THEN product \o <<"-", "v">> \o version
    ELSE version

ParseIdle ==
    [pc |-> "idle", summary |-> <<>>, match |-> NoMatch, releases |-> <<>>]

\* DiscoverActiveReleases, the loop over the returned tickets, for one
\* ticket: parse the summary, skip it without a match or without an
\* application name, else append the release.
DiscoverIssue ==
    /\ pv.pc = "issue"
    /\ LET m == ParseVersionFromSummary(pv.summary)
           fixVersion == FixVersionOf(m.product, m.version)
           s3App == FixVersionToS3App(fixVersion)
       IN  pv' = [pv EXCEPT !.pc = "done", !.match = m,
                    !.releases =
                       IF ~m.ok \/ s3App = <<>> THEN <<>>
                       ELSE <<[FixVersion |-> fixVersion,
                               S3Application |-> s3App]>>]
    /\ UNCHANGED <<rt, sr, ev>>

\* The summary of the ticket at hand.
ParseCalls ==
    {[ParseIdle EXCEPT !.pc = "issue", !.summary = s] : s \in Summaries}

\* ===================================================================
\* Run: the two sync loops and the shared context
\* ===================================================================
\* The goroutines main starts: syncer.Run of the S3 and of the JIRA syncer.
Loops == {"s3", "jira"}

\* A Run loop before its goroutine has run: pc is the position in Run,
\* ticker whether time.NewTicker has run (and Stop has not), tick the ticks
\* buffered in ticker.C (a channel of capacity 1), inSync the SyncOnce calls
\* in progress, started the SyncOnce calls made so far, late whether the
\* last one was started with ctx already cancelled.
RunIdle ==
    [pc |-> "init", ticker |-> FALSE, tick |-> 0, inSync |-> 0,
     started |-> 0, late |-> FALSE]

\* Run, first statement: s.SyncOnce(ctx).
RunSyncOnce(p) ==
    /\ run[p].pc = "init"
    /\ run' = [run EXCEPT ![p] = [@ EXCEPT !.pc = "sync", !.inSync = @ + 1,
                                           !.started = @ + 1,
                                           !.late = cancelled]]
    /\ UNCHANGED cancelled

\* SyncOnce returns to Run: after the first call the ticker is created;
\* then the select.
RunSyncOnceReturns(p) ==
    /\ run[p].inSync > 0
    /\ run' = [run EXCEPT ![p] =
                 IF @.pc = "sync"
                 THEN [@ EXCEPT !.pc = "select", !.ticker = TRUE,
                                !.inSync = @ - 1]
                 ELSE [@ EXCEPT !.inSync = @ - 1]]
    /\ UNCHANGED cancelled

\* The interval elapses: the ticker sends on ticker.C, or drops the tick
\* when one is still buffered.
RunTick(p) ==
    /\ run[p].ticker
    /\ run[p].tick = 0
    /\ run' = [run EXCEPT ![p].tick = 1]
    /\ UNCHANGED cancelled

\* select, case <-ctx.Done(): return (and the deferred ticker.Stop).
RunSelectDone(p) ==
    /\ run[p].pc = "select"
    /\ cancelled
    /\ run' = [run EXCEPT ![p] = [@ EXCEPT !.pc = "returned",
                                           !.ticker = FALSE]]
    /\ UNCHANGED cancelled

\* Variant of the ticker case that starts SyncOnce in a goroutine of its own
\* and goes back to the select.
RunSelectTickAsync(p) ==
    /\ run[p].pc = "select"
    /\ run[p].tick = 1
    /\ run[p].started < MaxRuns
    /\ run' = [run EXCEPT ![p] = [@ EXCEPT !.tick = 0,
                                           !.inSync = @ + 1,
                                           !.started = @ + 1,
                                           !.late = cancelled]]
    /\ UNCHANGED cancelled

\* select, case <-ticker.C: s.SyncOnce(ctx). When ctx.Done() is ready as
\* well, select takes either case.
RunSelectTick(p) ==
    /\ run[p].pc = "select"
    /\ run[p].tick = 1
    /\ run[p].started < MaxRuns
    /\ run' = [run EXCEPT ![p] = [@ EXCEPT !.pc = "sync", !.tick = 0,
                                           !.inSync = @ + 1,
                                           !.started = @ + 1,
                                           !.late = cancelled]]
    /\ UNCHANGED cancelled

\* The process receives SIGINT or SIGTERM: the context is cancelled.
RunCancel ==
    /\ ~cancelled
    /\ cancelled' = TRUE
    /\ UNCHANGED run

RunsIdle ==
    /\ run = [p \in Loops |-> RunIdle]
    /\ cancelled = FALSE

\* ===================================================================
\* API: the store reads and the two readiness handlers
\* ===================================================================
\* The id of the row LatestSnapshotPerApplication joins for an application:
\* MAX(id) ... GROUP BY application.
MaxId(tbl, app) ==
    CHOOSE i \in DOMAIN tbl :
       /\ tbl[i].application = app
       /\ \A j \in DOMAIN tbl : tbl[j].application = app => j <= i

\* LatestSnapshotPerApplication: per application with a row, its row of
\* greatest id.
LatestSnapshotPerApplication(tbl) ==
    [app \in {tbl[i].application : i \in DOMAIN tbl} |-> tbl[MaxId(tbl, app)]]

\* LOWER(status) NOT IN ('closed', 'verified', 'done')
IsOpenStatus(status) == status \notin {"Closed", "Verified", "Done"}

NilSummary == [isNil |-> TRUE, Open |-> 0]

\* The open column of both summary queries over the rows of one version.
OpenCount(tbl, fixVersion) ==
    BagCardinality(SelectRows(tbl, {r \in DOMAIN tbl :
        r.fix_version = fixVersion /\ IsOpenStatus(r.status)}))

\* GetIssueSummary: one row always (COUNT, COALESCE(SUM, 0)), also for a
\* version without issues.
GetIssueSummary(tbl, fixVersion) ==
    [isNil |-> FALSE, Open |-> OpenCount(tbl, fixVersion)]

\* Variant of GetIssueSummariesBatch without GROUP BY fix_version: every
\* requested version gets the counts over all of them.
GetIssueSummariesBatchUngrouped(tbl, fixVersions) ==
    LET open == BagCardinality(SelectRows(tbl, {r \in DOMAIN tbl :
                   r.fix_version \in fixVersions /\ IsOpenStatus(r.status)}))
    IN  [v \in {r.fix_version : r \in {x \in DOMAIN tbl :
                                         x.fix_version \in fixVersions}} |->
           [isNil |-> FALSE, Open |-> open]]

\* GetIssueSummariesBatch: a map with an entry for each requested version
\* that has at least one issue row (GROUP BY fix_version).
GetIssueSummariesBatch(tbl, fixVersions) ==
    [v \in {r.fix_version : r \in {x \in DOMAIN tbl :
                                      x.fix_version \in fixVersions}} |->
       [isNil |-> FALSE, Open |-> OpenCount(tbl, v)]]

\* issueSummaries[rel.Name]: nil for a missing key.
SummaryOf(issueSummaries, name) ==
    IF name \in DOMAIN issueSummaries THEN issueSummaries[name]
    ELSE NilSummary

\* toReleaseVersion, the fields computeReadiness reads: due_date "" (0) is
\* a nil DueDate.
toReleaseVersion(row) ==
    [Name |-> row.name, Released |-> row.released,
     S3Application |-> row.s3_application,
     DueDate |-> [isNil |-> row.due_date = 0, at |-> row.due_date]]

\* ListAllReleaseVersions: every stored version, ORDER BY name.
ListAllReleaseVersions(tbl) ==
    LET byName == SelectSeq(Versions, LAMBDA v : \E r \in DOMAIN tbl : r.name = v)
    IN  [i \in DOMAIN byName |->
           toReleaseVersion(CHOOSE r \in DOMAIN tbl : r.name = byName[i])]

NoSingle ==
    [status |-> 0, version |-> "", sumErr |-> FALSE, snapErr |-> FALSE,
     testsPassed |-> FALSE, readiness |-> Readiness("", "", 0)]

NoOverview == [status |-> 0, readiness |-> <<>>]

ApiIdle == [now |-> 0, single |-> NoSingle, overview |-> NoOverview]

\* The tests-passed input both handlers derive for a release from the
\* result apps of LatestSnapshotPerApplication.
TestsPassedOf(release, apps) ==
    /\ release.S3Application # ""
    /\ release.S3Application \in DOMAIN apps
    /\ apps[release.S3Application].tests_passed

\* GET /releases/{version}/readiness: 404 without the release; a failed
\* GetIssueSummary leaves the summary nil and a failed
\* LatestSnapshotPerApplication leaves testsPassed false.
handleGetReleaseReadiness ==
    /\ \E version \in Range(Versions), getOk, sumOk, snapOk \in BOOLEAN :
         LET rows == {r \in DOMAIN release_versions : r.name = version}
         IN  api' = [api EXCEPT !.single =
               IF ~getOk \/ rows = {}
               THEN [NoSingle EXCEPT !.status = 404, !.version = version]
               ELSE LET release == toReleaseVersion(CHOOSE r \in rows : TRUE)
                        issueSummary ==
                           IF sumOk THEN GetIssueSummary(jira_issues, version)
                           ELSE NilSummary
                        testsPassed ==
                           /\ snapOk
                           /\ TestsPassedOf(release,
                                 LatestSnapshotPerApplication(snapshots))
                    IN  [status |-> 200, version |-> version,
                         sumErr |-> ~sumOk, snapErr |-> ~snapOk,
                         testsPassed |-> testsPassed,
                         readiness |-> computeReadiness(release, issueSummary,
                                          testsPassed, api.now)]]
    /\ UNCHANGED main

\* GET /releases/overview: 500 when any of its three reads fails; else one
\* readiness per stored release.
handleReleasesOverview ==
    /\ \E listOk, snapOk, batchOk \in BOOLEAN :
         LET releases == ListAllReleaseVersions(release_versions)
             apps == LatestSnapshotPerApplication(snapshots)
             fixVersions == {releases[i].Name : i \in DOMAIN releases}
             issueSummaries == GetIssueSummariesBatch(jira_issues, fixVersions)
         IN  api' = [api EXCEPT !.overview =
               IF ~(listOk /\ snapOk /\ batchOk)
               THEN [NoOverview EXCEPT !.status = 500]
               ELSE [status |-> 200,
                     readiness |->
                        [v \in fixVersions |->
                           LET rel == releases[CHOOSE i \in DOMAIN releases :
                                                 releases[i].Name = v]
                           IN  computeReadiness(rel,
                                  SummaryOf(issueSummaries, v),
                                  TestsPassedOf(rel, apps), api.now)]]]
    /\ UNCHANGED main

\* ---- the store contents the handlers may meet
\* The application directory of the bucket that a release maps to.
ApiApplication(v) == IF v = "quay-v3.16.2" THEN "appA" ELSE "appB"

\* Due dates of a tracking ticket, in hours; 0 is none.
ApiDueDates(v) == IF v = "quay-v3.16.2" THEN {0, 999, 1048, 1240} ELSE {0}

\* The rows UpsertReleaseVersion may have stored for version v.
ApiReleaseRows(v) ==
    {DiscoveredReleaseVersion(
        [FixVersion |-> v, ReleaseTicketKey |-> "PROJQUAY-1",
         S3Application |-> ApiApplication(v), DueDate |-> d], resp) :
       d \in ApiDueDates(v), resp \in GetVersionResponses}

\* release_versions: at most one row per name.
ApiReleaseTables ==
    {SetToBag(rows) :
       rows \in {s \in SUBSET (UNION {ApiReleaseRows(v) : v \in Range(Versions)}) :
                   \A r1, r2 \in s : r1.name = r2.name => r1 = r2}}

\* jira_issues: at most one row per (key, fix_version).
ApiIssueTables ==
    {SetToBag(rows) :
       rows \in {s \in SUBSET {[key |-> "PROJQUAY-10", fix_version |-> v,
                                  status |-> st] :
                                   v \in Range(Versions),
                                   st \in Statuses("PROJQUAY-10")} :
                   \A r1, r2 \in s :
                      r1.fix_version = r2.fix_version => r1 = r2}}

\* snapshots: the rows of up to two ingested keys, in either order of
\* ingestion, one row per name.
ApiSnapshotTables ==
    {[i \in DOMAIN ks |-> SnapshotRow(Manifest(ks[i]))] :
       ks \in {s \in UNION {[1..n -> Range(AllKeys)] : n \in 0..2} :
                 \A i, j \in DOMAIN s :
                    Manifest(s[i]).Snapshot = Manifest(s[j]).Snapshot => i = j}}

\* ===================================================================
\* main: the server, the wait for the sync loops, the deferred Close
\* ===================================================================
\* main has opened the database, started both Run goroutines (wg.Add(1), go)
\* and is inside srv.Run, which blocks until ctx is done.
MainIdle == [pc |-> "serve"]

\* os.Exit has not ended the process (and its goroutines).
MainAlive == main.pc # "exited"

\* srv.Run returns once ctx is done: nil, and main goes on to wg.Wait, or
\* the error of http.Shutdown, and main calls os.Exit(1) at once.
MainServerReturns ==
    /\ main.pc = "serve"
    /\ cancelled
    /\ \E err \in BOOLEAN :
         main' = [main EXCEPT !.pc = IF err THEN "exited" ELSE "wait"]
    /\ UNCHANGED <<api, run, cancelled>>

\* Variant of the end of main without wg.Wait: the deferred Close runs as
\* soon as srv.Run has returned.
MainWaitReturnsAtOnce ==
    /\ main.pc = "wait"
    /\ main' = [main EXCEPT !.pc = "closed"]
    /\ UNCHANGED <<api, run, cancelled>>

\* wg.Wait returns when both goroutines have returned from Run (wg.Done);
\* main returns and its deferred database.Close runs.
MainWaitReturns ==
    /\ main.pc = "wait"
    /\ \A p \in Loops : run[p].pc = "returned"
    /\ main' = [main EXCEPT !.pc = "closed"]
    /\ UNCHANGED <<api, run, cancelled>>

SrvIdle ==
    /\ api = ApiIdle
    /\ main = MainIdle

CallsIdle ==
    /\ rt = RetryIdle
    /\ sr = SearchIdle
    /\ ev = EvalIdle
    /\ pv = ParseIdle

\* ===================================================================
\* Specifications
\* ===================================================================
S3Init == S3Start /\ JiraStart /\ CallsIdle /\ RunsIdle /\ SrvIdle

S3Next ==
    \/ Upload /\ UNCHANGED <<jiravars, callvars, runvars, srvvars>>
    \/ \E p \in Syncers : S3SyncOnce(p) /\ UNCHANGED <<jiravars, callvars, runvars, srvvars>>
    \/ \E p \in Syncers : S3ListSnapshots(p) /\ UNCHANGED <<jiravars, callvars, runvars, srvvars>>
    \/ \E p \in Syncers : S3GetSnapshot(p) /\ UNCHANGED <<jiravars, callvars, runvars, srvvars>>
    \/ \E p \in Syncers : S3GetTestResults(p) /\ UNCHANGED <<jiravars, callvars, runvars, srvvars>>
    \/ \E p \in Syncers : S3CreateSnapshot(p) /\ UNCHANGED <<jiravars, callvars, runvars, srvvars>>
    \/ \E p \in Syncers : S3CreateSnapshotComponent(p) /\ UNCHANGED <<jiravars, callvars, runvars, srvvars>>
    \/ \E p \in Syncers : S3CreateSnapshotTestResult(p) /\ UNCHANGED <<jiravars, callvars, runvars, srvvars>>

SpecS3 == S3Init /\ [][S3Next]_vars

\* The S3 syncer as main runs it: one Run loop, whose ticker fires for ever
\* and whose every SyncOnce runs on to its return.
S3LiveNext ==
    \/ Upload /\ UNCHANGED <<jiravars, callvars, runvars, srvvars>>
    \/ S3SyncOnce(1) /\ UNCHANGED <<jiravars, callvars, runvars, srvvars>>
    \/ S3SyncOnceAgain(1) /\ UNCHANGED <<jiravars, callvars, runvars, srvvars>>
    \/ S3ListSnapshots(1) /\ UNCHANGED <<jiravars, callvars, runvars, srvvars>>
    \/ S3GetSnapshot(1) /\ UNCHANGED <<jiravars, callvars, runvars, srvvars>>
    \/ S3GetTestResults(1) /\ UNCHANGED <<jiravars, callvars, runvars, srvvars>>
    \/ S3CreateSnapshot(1) /\ UNCHANGED <<jiravars, callvars, runvars, srvvars>>
    \/ S3CreateSnapshotComponent(1) /\ UNCHANGED <<jiravars, callvars, runvars, srvvars>>
    \/ S3CreateSnapshotTestResult(1) /\ UNCHANGED <<jiravars, callvars, runvars, srvvars>>

\* A step of the syncer itself (not of the bucket).
S3LiveStep ==
    /\ \/ S3SyncOnce(1) \/ S3SyncOnceAgain(1) \/ S3ListSnapshots(1)
       \/ S3GetSnapshot(1) \/ S3GetTestResults(1) \/ S3CreateSnapshot(1)
       \/ S3CreateSnapshotComponent(1) \/ S3CreateSnapshotTestResult(1)
    /\ UNCHANGED <<jiravars, callvars, runvars, srvvars>>

SpecS3Live == S3Init /\ [][S3LiveNext]_vars /\ WF_vars(S3LiveStep)

JiraInit == S3Start /\ JiraStart /\ CallsIdle /\ RunsIdle /\ SrvIdle

JiraNext ==
    \/ JiraSyncOnce /\ UNCHANGED <<s3vars, callvars, runvars, srvvars>>
    \/ JiraUpsertDiscovered /\ UNCHANGED <<s3vars, callvars, runvars, srvvars>>
    \/ JiraSearchIssues /\ UNCHANGED <<s3vars, callvars, runvars, srvvars>>
    \/ JiraUpsertJiraIssue /\ UNCHANGED <<s3vars, callvars, runvars, srvvars>>
    \/ JiraDeleteJiraIssuesNotIn /\ UNCHANGED <<s3vars, callvars, runvars, srvvars>>
    \/ JiraListActiveReleaseVersions /\ UNCHANGED <<s3vars, callvars, runvars, srvvars>>
    \/ JiraReconcile /\ UNCHANGED <<s3vars, callvars, runvars, srvvars>>

SpecJira == JiraInit /\ [][JiraNext]_vars

\* One pass of the S3 syncer and one cycle of the JIRA syncer, started by
\* main as two goroutines on the same store, their steps interleaved in any
\* order. The bucket does not change during the pass.
BothBuckets == {{"appA/1", "appB/1"}}

BothInit ==
    /\ bucket \in BothBuckets
    /\ snapshots = <<>> /\ components = {}
    /\ snapshot_components = <<>> /\ snapshot_test_results = <<>>
    /\ s3 = [p \in Syncers |-> S3Idle]
    /\ passes = 0
    /\ JiraStart /\ CallsIdle /\ RunsIdle /\ SrvIdle

\* Variant of the two passes on a store whose issue cleanup also clears the
\* test results.
BothNextSharedTable ==
    \/ passes = 0 /\ S3SyncOnce(1) /\ UNCHANGED <<jiravars, callvars, runvars, srvvars>>
    \/ S3ListSnapshots(1) /\ UNCHANGED <<jiravars, callvars, runvars, srvvars>>
    \/ S3GetSnapshot(1) /\ UNCHANGED <<jiravars, callvars, runvars, srvvars>>
    \/ S3GetTestResults(1) /\ UNCHANGED <<jiravars, callvars, runvars, srvvars>>
    \/ S3CreateSnapshot(1) /\ UNCHANGED <<jiravars, callvars, runvars, srvvars>>
    \/ S3CreateSnapshotComponent(1) /\ UNCHANGED <<jiravars, callvars, runvars, srvvars>>
    \/ S3CreateSnapshotTestResult(1) /\ UNCHANGED <<jiravars, callvars, runvars, srvvars>>
    \/ cycles = 0 /\ JiraSyncOnce /\ UNCHANGED <<s3vars, callvars, runvars, srvvars>>
    \/ JiraUpsertDiscovered /\ UNCHANGED <<s3vars, callvars, runvars, srvvars>>
    \/ JiraSearchIssues /\ UNCHANGED <<s3vars, callvars, runvars, srvvars>>
    \/ JiraUpsertJiraIssue /\ UNCHANGED <<s3vars, callvars, runvars, srvvars>>
    \/ /\ JiraDeleteJiraIssuesNotIn
       /\ snapshot_test_results' = <<>>
       /\ UNCHANGED <<bucket, snapshots, components, snapshot_components,
                      s3, passes, callvars, runvars, srvvars>>
    \/ JiraListActiveReleaseVersions /\ UNCHANGED <<s3vars, callvars, runvars, srvvars>>
    \/ JiraReconcile /\ UNCHANGED <<s3vars, callvars, runvars, srvvars>>

BothNext ==
    \/ passes = 0 /\ S3SyncOnce(1) /\ UNCHANGED <<jiravars, callvars, runvars, srvvars>>
    \/ S3ListSnapshots(1) /\ UNCHANGED <<jiravars, callvars, runvars, srvvars>>
    \/ S3GetSnapshot(1) /\ UNCHANGED <<jiravars, callvars, runvars, srvvars>>
    \/ S3GetTestResults(1) /\ UNCHANGED <<jiravars, callvars, runvars, srvvars>>
    \/ S3CreateSnapshot(1) /\ UNCHANGED <<jiravars, callvars, runvars, srvvars>>
    \/ S3CreateSnapshotComponent(1) /\ UNCHANGED <<jiravars, callvars, runvars, srvvars>>
    \/ S3CreateSnapshotTestResult(1) /\ UNCHANGED <<jiravars, callvars, runvars, srvvars>>
    \/ cycles = 0 /\ JiraSyncOnce /\ UNCHANGED <<s3vars, callvars, runvars, srvvars>>
    \/ JiraUpsertDiscovered /\ UNCHANGED <<s3vars, callvars, runvars, srvvars>>
    \/ JiraSearchIssues /\ UNCHANGED <<s3vars, callvars, runvars, srvvars>>
    \/ JiraUpsertJiraIssue /\ UNCHANGED <<s3vars, callvars, runvars, srvvars>>
    \/ JiraDeleteJiraIssuesNotIn /\ UNCHANGED <<s3vars, callvars, runvars, srvvars>>
    \/ JiraListActiveReleaseVersions /\ UNCHANGED <<s3vars, callvars, runvars, srvvars>>
    \/ JiraReconcile /\ UNCHANGED <<s3vars, callvars, runvars, srvvars>>

SpecBoth == BothInit /\ [][BothNext]_vars

\* A step of the S3 pass, and a step of the JIRA cycle, each as it runs with
\* no other writer of the store.
S3PassStep ==
    \/ passes = 0 /\ S3SyncOnce(1)
    \/ S3ListSnapshots(1)
    \/ S3GetSnapshot(1)
    \/ S3GetTestResults(1)
    \/ S3CreateSnapshot(1)
    \/ S3CreateSnapshotComponent(1)
    \/ S3CreateSnapshotTestResult(1)

JiraPassStep ==
    \/ cycles = 0 /\ JiraSyncOnce
    \/ JiraUpsertDiscovered
    \/ JiraSearchIssues
    \/ JiraUpsertJiraIssue
    \/ JiraDeleteJiraIssuesNotIn
    \/ JiraListActiveReleaseVersions
    \/ JiraReconcile

RetryInit ==
    /\ S3Start /\ JiraStart /\ RunsIdle /\ SrvIdle
    /\ rt \in RetryCalls
    /\ sr = SearchIdle /\ ev = EvalIdle /\ pv = ParseIdle

RetryNext ==
    \/ RetryDelay /\ UNCHANGED <<s3vars, jiravars, runvars, srvvars>>
    \/ RetryDoGet /\ UNCHANGED <<s3vars, jiravars, runvars, srvvars>>
    \/ RetryAfterWait /\ UNCHANGED <<s3vars, jiravars, runvars, srvvars>>

SpecRetry == RetryInit /\ [][RetryNext]_vars

SearchInit ==
    /\ S3Start /\ JiraStart /\ RunsIdle /\ SrvIdle
    /\ sr \in SearchCalls
    /\ rt = RetryIdle /\ ev = EvalIdle /\ pv = ParseIdle

SearchNext ==
    \/ SearchIssuesPage /\ UNCHANGED <<s3vars, jiravars, runvars, srvvars>>
    \/ DiscoverActiveReleasesPage /\ UNCHANGED <<s3vars, jiravars, runvars, srvvars>>

SpecSearch == SearchInit /\ [][SearchNext]_vars

\* A search against any server; the call is never left waiting: every
\* request is answered and the loop goes on running.
AnyInit ==
    /\ S3Start /\ JiraStart /\ RunsIdle /\ SrvIdle
    /\ sr \in AnyCalls
    /\ rt = RetryIdle /\ ev = EvalIdle /\ pv = ParseIdle

AnyNext ==
    \/ AnyRequest /\ UNCHANGED <<s3vars, jiravars, runvars, srvvars>>
    \/ AnyResponse /\ UNCHANGED <<s3vars, jiravars, runvars, srvvars>>

SpecSearchAny == AnyInit /\ [][AnyNext]_vars /\ WF_vars(AnyNext)

EvalInit ==
    /\ S3Start /\ JiraStart /\ RunsIdle /\ SrvIdle
    /\ ev \in EvalCalls
    /\ rt = RetryIdle /\ sr = SearchIdle /\ pv = ParseIdle

EvalNext ==
    \/ Evaluate /\ UNCHANGED <<s3vars, jiravars, runvars, srvvars>>

SpecEval == EvalInit /\ [][EvalNext]_vars

ParseInit ==
    /\ S3Start /\ JiraStart /\ RunsIdle /\ SrvIdle
    /\ pv \in ParseCalls
    /\ rt = RetryIdle /\ sr = SearchIdle /\ ev = EvalIdle

ParseNext ==
    \/ DiscoverIssue /\ UNCHANGED <<s3vars, jiravars, runvars, srvvars>>

SpecParse == ParseInit /\ [][ParseNext]_vars

RunInit == S3Start /\ JiraStart /\ CallsIdle /\ RunsIdle /\ SrvIdle

RunNext ==
    \/ \E p \in Loops : RunSyncOnce(p) /\ UNCHANGED <<s3vars, jiravars, callvars, srvvars>>
    \/ \E p \in Loops : RunSyncOnceReturns(p) /\ UNCHANGED <<s3vars, jiravars, callvars, srvvars>>
    \/ \E p \in Loops : RunTick(p) /\ UNCHANGED <<s3vars, jiravars, callvars, srvvars>>
    \/ \E p \in Loops : RunSelectDone(p) /\ UNCHANGED <<s3vars, jiravars, callvars, srvvars>>
    \/ \E p \in Loops : RunSelectTick(p) /\ UNCHANGED <<s3vars, jiravars, callvars, srvvars>>
    \/ RunCancel /\ UNCHANGED <<s3vars, jiravars, callvars, srvvars>>

SpecRun == RunInit /\ [][RunNext]_vars

\* The handlers answer, at some instant, over a store the syncers have
\* filled and are not writing to.
ApiInit ==
    /\ snapshots \in ApiSnapshotTables
    /\ bucket = {k \in Range(AllKeys) :
                   \E i \in DOMAIN snapshots :
                      snapshots[i] = SnapshotRow(Manifest(k))}
    /\ components = {}
    /\ snapshot_components = <<>>
    /\ snapshot_test_results = <<>>
    /\ s3 = [p \in Syncers |-> S3Idle]
    /\ passes = 0
    /\ release_versions \in ApiReleaseTables
    /\ jira_issues \in ApiIssueTables
    /\ js = JsIdle
    /\ cycles = 0
    /\ CallsIdle /\ RunsIdle
    /\ api \in {[ApiIdle EXCEPT !.now = n] : n \in Nows}
    /\ main = MainIdle

ApiNext ==
    \/ handleGetReleaseReadiness /\ UNCHANGED <<s3vars, jiravars, callvars, runvars>>
    \/ handleReleasesOverview /\ UNCHANGED <<s3vars, jiravars, callvars, runvars>>

SpecApi == ApiInit /\ [][ApiNext]_vars

\* The process from srv.Run on: the two Run loops, the signal, and main.
MainInit == S3Start /\ JiraStart /\ CallsIdle /\ RunsIdle /\ SrvIdle

MainNext ==
    \/ \E p \in Loops : MainAlive /\ RunSyncOnce(p) /\ UNCHANGED <<s3vars, jiravars, callvars, srvvars>>
    \/ \E p \in Loops : MainAlive /\ RunSyncOnceReturns(p) /\ UNCHANGED <<s3vars, jiravars, callvars, srvvars>>
    \/ \E p \in Loops : MainAlive /\ RunTick(p) /\ UNCHANGED <<s3vars, jiravars, callvars, srvvars>>
    \/ \E p \in Loops : MainAlive /\ RunSelectDone(p) /\ UNCHANGED <<s3vars, jiravars, callvars, srvvars>>
    \/ \E p \in Loops : MainAlive /\ RunSelectTick(p) /\ UNCHANGED <<s3vars, jiravars, callvars, srvvars>>
    \/ RunCancel /\ UNCHANGED <<s3vars, jiravars, callvars, srvvars>>
    \/ MainServerReturns /\ UNCHANGED <<s3vars, jiravars, callvars>>
    \/ MainWaitReturns /\ UNCHANGED <<s3vars, jiravars, callvars>>

SpecMain == MainInit /\ [][MainNext]_vars

\* ===================================================================
\* Properties of the S3 syncer (SpecS3)
\* ===================================================================
S3Tables ==
    <<snapshots, components, snapshot_components, snapshot_test_results>>

\* A finished pass whose ListApplications succeeded.
S3PassDone(p) == s3[p].pc = "idle" /\ s3[p].listed

S3FetchFailed(p) ==
    \/ \E a \in DOMAIN s3[p].applog : s3[p].applog[a] = "fail"
    \/ \E k \in DOMAIN s3[p].log : s3[p].log[k] = "nofetch"

\* C1: a SyncOnce pass that starts when every snapshot of the bucket is
\* already stored by name (and during which no new snapshot is uploaded)
\* changes no row of snapshots, snapshot_components or
\* snapshot_test_results: every step of such a pass leaves the tables as
\* they are.
C1_RerunLeavesStoreUnchanged ==
    [][\A p \in Syncers :
          (s3[p].covered /\ s3[p].pc # "idle" /\ s3'[p] # s3[p])
             => UNCHANGED S3Tables]_vars

\* C1 witness: a pass over a covered bucket has ended after re-observing a
\* stored snapshot.
C1_Witness ==
    \E p \in Syncers :
       /\ S3PassDone(p) /\ s3[p].covered
       /\ \E k \in bucket : s3[p].log[k] = "exists"

\* C3: no two rows of snapshots carry the same name.
C3_SnapshotNameUnique ==
    \A i, j \in DOMAIN snapshots :
       snapshots[i].name = snapshots[j].name => i = j

\* C3 witness: a pass lost the race between its existence check and its
\* insert (the name was taken in between), and the table still holds one
\* row for the name.
C3_Witness ==
    \E p \in Syncers : \E k \in bucket :
       /\ s3[p].log[k] = "dup"
       /\ Cardinality({i \in DOMAIN snapshots :
                         snapshots[i].name = Manifest(k).Snapshot}) = 1

IsPrefix(s, u) == Len(s) <= Len(u) /\ SubSeq(u, 1, Len(s)) = s

\* The rows a step has appended to a table kept in insertion order.
Added(tbl, tblNext) == {tblNext[i] : i \in (Len(tbl) + 1)..Len(tblNext)}

\* C13: every step of the S3 syncer only appends: each table keeps the rows
\* it had, unchanged and in place. A pass holds a snapshot id only from the
\* step in which it inserted that row to the end of that ingestion, and a
\* Component Record or Test Result is only ever added by a pass under the id
\* it holds, so no pass adds to a snapshot another pass (or an earlier
\* ingestion) created.
C13_Additive ==
    [][/\ IsPrefix(snapshots, snapshots')
       /\ IsPrefix(snapshot_components, snapshot_components')
       /\ IsPrefix(snapshot_test_results, snapshot_test_results')
       /\ components \subseteq components'
       /\ \A p \in Syncers :
             (s3'[p].recId # s3[p].recId /\ s3'[p].recId # 0) =>
                /\ s3[p].recId = 0
                /\ Len(snapshots') = Len(snapshots) + 1
                /\ s3'[p].recId = Len(snapshots')
       /\ \A row \in Added(snapshot_components, snapshot_components')
                      \cup Added(snapshot_test_results,
                                 snapshot_test_results') :
             \E p \in Syncers :
                s3'[p] # s3[p] /\ s3[p].recId = row.snapshot_id]_vars

\* C13 witness: a pass has found a snapshot already stored and skipped it;
\* the snapshot still has the Component Record and the Test Result of its
\* ingestion, and another snapshot has been stored after it.
C13_Witness ==
    \E p \in Syncers : \E k \in bucket : \E i \in DOMAIN snapshots :
       /\ s3[p].log[k] = "exists"
       /\ snapshots[i].name = Manifest(k).Snapshot
       /\ i < Len(snapshots)
       /\ \E j \in DOMAIN snapshot_components :
             snapshot_components[j].snapshot_id = i
       /\ \E j \in DOMAIN snapshot_test_results :
             snapshot_test_results[j].snapshot_id = i

\* The child rows stored so far.
ChildRows == Range(snapshot_components) \cup Range(snapshot_test_results)

\* C24: within one ingestion the result files are fetched first, in one go
\* and before any write: while fetching, and until CreateSnapshot, the pass
\* holds no row and its steps write nothing; CreateSnapshot runs with the
\* outcome of every fetch at hand (a count, or 0 for a fetch given up); no
\* fetch follows a write; and a child row is only added under the id of a
\* Snapshot row written by an earlier step, so every child row refers to a
\* stored snapshot.
C24_FetchBeforePersist ==
    /\ [](\A row \in ChildRows : row.snapshot_id \in DOMAIN snapshots)
    /\ [](\A p \in Syncers :
            /\ s3[p].pc \in {"junit", "create"} => s3[p].recId = 0
            /\ s3[p].pc = "create" =>
                  DOMAIN s3[p].summary
                     = DOMAIN Manifest(Head(s3[p].keys)).TestResults
            /\ s3[p].pc \in {"comps", "results"} =>
                  /\ s3[p].recId \in DOMAIN snapshots
                  /\ snapshots[s3[p].recId]
                        = SnapshotRow(Manifest(Head(s3[p].keys))))
    /\ [][\A p \in Syncers :
             s3'[p] # s3[p] =>
                /\ s3[p].pc = "junit" =>
                      UNCHANGED S3Tables /\ s3'[p].pc = "create"
                /\ s3'[p].pc = "junit" => s3[p].pc = "keys"
                /\ \A row \in Added(snapshot_components, snapshot_components')
                               \cup Added(snapshot_test_results,
                                          snapshot_test_results') :
                      /\ row.snapshot_id = s3[p].recId
                      /\ row.snapshot_id \in DOMAIN snapshots]_vars

\* C24 witness: an ingestion is writing its Test Results, after its
\* Snapshot row and its Component Record, with the outcome of a fetch that
\* was given up.
C24_Witness ==
    \E p \in Syncers :
       /\ s3[p].pc = "results"
       /\ s3[p].recId \in DOMAIN snapshots
       /\ \E row \in Range(snapshot_components) :
             row.snapshot_id = s3[p].recId
       /\ s3[p].summary[1] = 0

\* The stored Test Results of the snapshot under key k.
ResultsOf(k) ==
    {snapshot_test_results[i] : i \in
        {j \in DOMAIN snapshot_test_results :
            LET s == snapshots[snapshot_test_results[j].snapshot_id]
            IN  /\ s.name = Manifest(k).Snapshot
                /\ s.application = Manifest(k).Application}}

\* A Test Result stored without the counts of its result file (the fetch
\* failed during the ingestion), and one stored with them.
StaleResult(k) == \E row \in ResultsOf(k) : row.total = 0
FreshResult(k) ==
    \E row \in ResultsOf(k) : row.total = JunitTotal(k, row.scenario)

\* C20 as stated: a Test Result stored without its counts because the fetch
\* of its result file failed eventually carries the file's counts.
C20_Original ==
    \A k \in Range(AllKeys) : StaleResult(k) ~> FreshResult(k)

\* C20 witness: a later pass has skipped, as already stored, a snapshot
\* whose Test Result was stored without counts.
C20_Witness ==
    \E k \in bucket :
       /\ StaleResult(k) /\ ~FreshResult(k)
       /\ s3[1].log[k] = "exists"
       /\ passes >= 2

\* The snapshot under key k has a Snapshot row.
Stored(k) == Manifest(k).Snapshot \in SnapshotNames(snapshots)

\* The syncer is between passes, and its last pass logged an error on the
\* way to key k.
S3PassFailedFor(k) ==
    s3[1].pc = "idle" /\ k \in S3LeftOver(s3[1], bucket)

\* C21: a key that a pass left over is taken up by the next pass, which ends
\* with the snapshot stored unless it logs an error on the way to that key
\* again; and every key in the bucket has its snapshot stored in the end,
\* unless passes keep failing on the way to it for ever.
C21_RetriedUntilStored ==
    /\ [](s3[1].pc = "idle" =>
            \A k \in s3[1].again : Stored(k) \/ k \in S3LeftOver(s3[1], bucket))
    /\ \A k \in Range(AllKeys) :
          \/ []<>S3PassFailedFor(k)
          \/ (k \in bucket) ~> Stored(k)

\* C21 witness: a pass has ingested a snapshot that the pass before it had
\* left over.
C21_Witness ==
    \E k \in s3[1].again :
       /\ s3[1].log[k] = "done"
       /\ Stored(k)

\* ===================================================================
\* Properties of the JIRA syncer (SpecJira)
\* ===================================================================
\* The state right after a syncVersion call has returned.
JsReturned == js.last.version # ""

\* The cycle has run to the end of SyncOnce.
JsCycleDone == js.pc = "idle" /\ js.done

ReleaseRows(name) == {r \in DOMAIN release_versions : r.name = name}

C10_Original ==
    \A v \in js.cyc.failed : v \notin js.cyc.changed

\* C10 amended: a syncVersion call whose search failed has written nothing
\* (the issue rows are as they were when the call started), and at the end
\* of a cycle syncVersion has run for every discovered release, whichever
\* searches failed.
C10_FailedSearchSkipsRelease ==
    /\ (JsReturned /\ ~js.last.searched) => ~js.last.wrote
    /\ JsCycleDone => js.cyc.discovered \subseteq js.cyc.synced

\* C10 witness: a cycle has ended in which the search of one release failed
\* and the issue rows of another release were changed.
C10_Witness ==
    /\ JsCycleDone
    /\ js.cyc.failed # {}
    /\ js.cyc.changed \ js.cyc.failed # {}
    /\ js.cyc.discovered \subseteq js.cyc.synced

\* C11: the step in which release discovery fails ends the cycle: it writes
\* no row, leaves SyncOnce returned (idle) with the discovery as the only
\* tracker request of the cycle, and the next thing the syncer does is a new
\* cycle, which starts with a discovery.
C11_DiscoveryFailureAborts ==
    [][/\ (cycles' = cycles + 1 /\ js'.aborted) =>
             /\ UNCHANGED <<release_versions, jira_issues>>
             /\ js'.pc = "idle"
             /\ js'.cyc.asked = {"discover"}
       /\ (js.aborted /\ js' # js) =>
             /\ cycles' = cycles + 1
             /\ "discover" \in js'.cyc.asked]_vars

\* C11 witness: a later cycle failed its discovery while the store held the
\* records of an earlier one.
C11_Witness ==
    /\ js.aborted /\ js.pc = "idle"
    /\ cycles >= 2
    /\ release_versions # EmptyBag
    /\ jira_issues # EmptyBag

\* C12: right after the release loop has looked up and upserted a
\* discovered release whose metadata lookup failed (request error or no
\* version of that name), syncVersion has been entered for that release,
\* and the release has a Release Version record unless the upsert itself
\* failed.
C12_LookupFailureStillSyncs ==
    (js.lookup.version # "" /\ js.lookup.noInfo) =>
       /\ js.pc = "search"
       /\ js.fixVersion = js.lookup.version
       /\ js.call.version = js.lookup.version
       /\ ~js.lookup.upsertErr => ReleaseRows(js.lookup.version) # {}

\* C12 witness: the lookup of a discovered release has failed, its record
\* is stored with the ticket's fields alone, and its issue sync has begun.
C12_Witness ==
    /\ js.lookup.noInfo /\ ~js.lookup.upsertErr
    /\ js.pc = "search"
    /\ \E r \in ReleaseRows(js.lookup.version) :
          r.description = "" /\ r.release_ticket_key # ""

\* C14: the store holds at most one Issue Record per (issue key, release
\* version): no two rows, and no two copies of a row, share both.
C14_OneRowPerKeyAndVersion ==
    \A r1 \in DOMAIN jira_issues :
       /\ jira_issues[r1] = 1
       /\ \A r2 \in DOMAIN jira_issues :
             (r1.key = r2.key /\ r1.fix_version = r2.fix_version) => r1 = r2

\* C14 witness: a syncVersion call has upserted an issue whose row was
\* already stored as returned (the table did not change), while the same
\* issue key has a row of its own, with another status, under each of two
\* releases.
C14_Witness ==
    /\ JsReturned /\ js.last.searched
    /\ ~js.last.writeErr /\ ~js.last.wrote
    /\ "PROJQUAY-10" \in js.last.keys
    /\ \E r1, r2 \in DOMAIN jira_issues :
          /\ r1.key = "PROJQUAY-10" /\ r2.key = "PROJQUAY-10"
          /\ r1.fix_version # r2.fix_version
          /\ r1.status # r2.status

\* The version v has a Release Version record, stored as released or archived.
Settled(v) ==
    /\ ReleaseRows(v) # {}
    /\ \A r \in ReleaseRows(v) : r.released \/ r.archived

\* The syncVersion call that the reconciliation makes for v, in the cycle
\* that stored v as released or archived, is in progress.
OnceMore(v) == js.ret = "reconcile" /\ js.fixVersion = v

\* The next step of the syncer is a version lookup (GetVersion) for v, or an
\* issue search (SearchIssues) for v.
AboutToLookUp(v) ==
    \/ js.pc = "release" /\ Head(js.releases).FixVersion = v
    \/ js.pc = "reconcile" /\ Head(js.dbVersions).name = v
          /\ v \notin js.activeSet
AboutToSearch(v) == js.pc = "search" /\ js.fixVersion = v

VersionRows(tbl, v) == SelectRows(tbl, {r \in DOMAIN tbl : r.name = v})
IssueRows(tbl, v) == SelectRows(tbl, {r \in DOMAIN tbl : r.fix_version = v})

\* C22: once a version is stored as released or archived and the issue sync
\* of that reconciliation is over, no step of a cycle that has not
\* discovered it looks it up, searches its issues, or changes its record or
\* its Issue Records.
C22_ReconciledOnce ==
    [][\A v \in Range(Versions) :
          (Settled(v) /\ ~OnceMore(v) /\ v \notin js'.cyc.discovered
             /\ js' # js) =>
             /\ ~AboutToLookUp(v)
             /\ ~AboutToSearch(v)
             /\ VersionRows(release_versions', v)
                   = VersionRows(release_versions, v)
             /\ IssueRows(jira_issues', v) = IssueRows(jira_issues, v)]_vars

\* C22 witness: a later cycle that did not discover a version stored as
\* released or archived has run to its end, having looked up and synced
\* another version, and the Issue Records of the first are still stored.
C22_Witness ==
    /\ JsCycleDone /\ cycles >= 2
    /\ {"version", "search"} \subseteq js.cyc.asked
    /\ \E v \in Range(Versions) :
          /\ Settled(v) /\ v \notin js.cyc.discovered
          /\ v \notin js.cyc.synced
          /\ IssueRows(jira_issues, v) # EmptyBag

\* The description, release date and flags of the stored rows of v.
MetadataOf(tbl, v) ==
    {[description |-> r.description, release_date |-> r.release_date,
      released |-> r.released, archived |-> r.archived] :
        r \in {x \in DOMAIN tbl : x.name = v}}

\* The release loop is at a discovered release that has a stored record.
AtStoredRelease ==
    /\ js.pc = "release"
    /\ ReleaseRows(Head(js.releases).FixVersion) # {}

\* C26 as stated: when the metadata lookup of a discovered release with a
\* stored record fails, the upsert of that iteration leaves the stored
\* description, release date, released flag and archived flag as they were.
C26_Original ==
    [][(AtStoredRelease /\ js'.lookup.noInfo /\ ~js'.lookup.upsertErr) =>
          MetadataOf(release_versions', Head(js.releases).FixVersion)
             = MetadataOf(release_versions, Head(js.releases).FixVersion)]_vars

\* C26 witness: the release loop is about to look up a discovered release
\* whose stored record carries a description and a release date and is
\* marked released.
C26_Witness ==
    /\ AtStoredRelease
    /\ \E r \in ReleaseRows(Head(js.releases).FixVersion) :
          r.description = "GA" /\ r.release_date = 15 /\ r.released

\* The keys of the upstream result of the syncVersion call in progress, once
\* SearchIssues has returned: those already handled and those to come.
ResultKeys ==
    Range(js.keys) \cup {js.issues[i].Key : i \in DOMAIN js.issues}

\* The Issue Records of v that a step removes.
RemovedKeys(v) == IssueKeysOf(jira_issues, v) \ IssueKeysOf(jira_issues', v)

\* C27: during syncVersion(v) no state lacks an issue of v that was stored
\* before and is part of the upstream result: a step of the syncer that
\* removes an Issue Record of v is the DeleteJiraIssuesNotIn of
\* syncVersion(v), taken when every issue of the result has been upserted,
\* and removes only keys absent from the result; every other step keeps
\* every stored key.
C27_UpdatedInPlace ==
    /\ [](js.pc = "delete" => js.issues = <<>> /\ js.call.searched)
    /\ [][\A v \in Range(Versions) :
            /\ RemovedKeys(v) # {} =>
                  /\ js.pc = "delete" /\ js.fixVersion = v
                  /\ RemovedKeys(v) \cap ResultKeys = {}
            /\ (js.pc \in {"upsert", "delete"} /\ js.fixVersion = v) =>
                  IssueKeysOf(jira_issues, v) \cap ResultKeys
                     \subseteq IssueKeysOf(jira_issues', v)]_vars

\* C27 witness: syncVersion(v) is between two upserts, the first of which
\* has changed the store; an issue of the result that it has not reached yet
\* is stored for v from an earlier sync.
C27_Witness ==
    /\ js.pc = "upsert" /\ js.keys # <<>> /\ js.call.wrote
    /\ Head(js.issues).Key \in IssueKeysOf(jira_issues, js.fixVersion)

\* ===================================================================
\* Properties of the shutdown of main (SpecMain)
\* ===================================================================
\* Both Run loops have returned, no SyncOnce call being in progress.
LoopsReturned ==
    \A p \in Loops : run[p].pc = "returned" /\ run[p].inSync = 0

\* C30: the store handle is closed only after the cancellation, when both
\* Run loops have returned, and once it is closed no loop takes a step (no
\* SyncOnce runs or starts, so no store call is made).
C30_WaitBeforeClose ==
    /\ [](main.pc = "closed" => cancelled /\ LoopsReturned)
    /\ [][main.pc = "closed" => run' = run /\ main' = main]_vars
    /\ [][(main.pc # "closed" /\ main'.pc = "closed") =>
            main.pc = "wait" /\ LoopsReturned]_vars

\* C30 witness: the store handle has been closed after a shutdown in which
\* a loop started a SyncOnce, not its first, with the context already
\* cancelled, and main waited for it.
C30_Witness ==
    /\ main.pc = "closed"
    /\ \E p \in Loops : run[p].late /\ run[p].started >= 2

\* ===================================================================
\* Properties of the two pipelines on one store (SpecBoth)
\* ===================================================================
JiraTables == <<release_versions, jira_issues>>

\* C28: a step of the S3 syncer leaves the Release Versions and Issue
\* Records as they are and a step of the JIRA syncer leaves the Snapshots,
\* Component Records and Test Results as they are; and whatever the
\* interleaving, the S3 side of the store goes through the steps of an S3
\* pass run alone and the JIRA side through the steps of a JIRA cycle run
\* alone, so the store at the end is the one that these two passes leave
\* when run one after the other.
C28_DisjointWrites ==
    /\ [][/\ s3' # s3 => UNCHANGED JiraTables
          /\ js' # js => UNCHANGED S3Tables]_vars
    /\ [][S3PassStep]_s3vars
    /\ [][JiraPassStep]_jiravars

\* C28 witness: both passes are under way and each has written to the store.
C28_Witness ==
    /\ s3[1].pc # "idle" /\ js.pc # "idle"
    /\ snapshots # <<>> /\ snapshot_test_results # <<>>
    /\ release_versions # EmptyBag /\ jira_issues # EmptyBag

\* ===================================================================
\* Properties of the readiness handlers (SpecApi)
\* ===================================================================
\* The stored row of the release the single-release handler answered for.
SingleRelease ==
    toReleaseVersion(CHOOSE r \in DOMAIN release_versions :
                        r.name = api.single.version)

\* The single-release handler has answered with a readiness, all of its
\* reads having succeeded.
SingleAnswered ==
    api.single.status = 200 /\ ~api.single.sumErr /\ ~api.single.snapErr

\* The stored snapshots of an application.
SnapshotsOf(app) == {i \in DOMAIN snapshots : snapshots[i].application = app}

\* The stored snapshot of an application with the greatest creation
\* timestamp.
NewestSnapshot(app) ==
    snapshots[CHOOSE i \in SnapshotsOf(app) :
                 \A j \in SnapshotsOf(app) :
                    snapshots[j].created_at <= snapshots[i].created_at]

\* C23 as stated: the tests-passed input of an evaluated release whose
\* application has stored snapshots is the flag of the one with the
\* greatest creation timestamp.
C23_Original ==
    (SingleAnswered /\ SnapshotsOf(SingleRelease.S3Application) # {}) =>
       api.single.testsPassed
          = NewestSnapshot(SingleRelease.S3Application).tests_passed

\* C23 witness: a release has been evaluated with the flag of the snapshot
\* ingested last, which is not the one created last and whose flag differs.
C23_Witness ==
    /\ SingleAnswered
    /\ SnapshotsOf(SingleRelease.S3Application) # {}
    /\ LET app == SingleRelease.S3Application
           last == snapshots[MaxId(snapshots, app)]
       IN  /\ last # NewestSnapshot(app)
           /\ last.tests_passed # NewestSnapshot(app).tests_passed
           /\ api.single.testsPassed = last.tests_passed

\* Both handlers have answered with a readiness for the release that the
\* single-release handler was asked about.
BothAnswered == api.single.status = 200 /\ api.overview.status = 200

\* C29 as stated: whenever both handlers have answered, for the same store
\* and instant, the overview's readiness of a release equals the
\* single-release handler's.
C29_Original ==
    BothAnswered =>
       api.overview.readiness[api.single.version] = api.single.readiness

\* C29: when both handlers have answered and the single-release handler's
\* reads of the issue summary and of the latest snapshots have succeeded,
\* the overview's readiness of the release equals the single-release
\* handler's, whether or not the release has Issue Records.
C29_SameReadiness ==
    (BothAnswered /\ SingleAnswered) =>
       api.overview.readiness[api.single.version] = api.single.readiness

\* A release without Issue Records, missing from the batch while another
\* release has open issues, has been answered alike by both handlers.
C29_NoEntry ==
    /\ BothAnswered /\ SingleAnswered
    /\ ~SingleRelease.Released
    /\ IssueKeysOf(jira_issues, api.single.version) = {}
    /\ \E r \in DOMAIN jira_issues : IsOpenStatus(r.status)
    /\ api.overview.readiness[api.single.version] = api.single.readiness

\* C29 witness: both handlers have answered for a release with open issues;
\* the single-release handler, whose GetIssueSummary failed, reports all
\* checks passing while the overview reports the open issues.
C29_Witness ==
    /\ BothAnswered /\ api.single.sumErr /\ ~api.single.snapErr
    /\ OpenCount(jira_issues, api.single.version) > 0
    /\ api.single.readiness.Signal = "green"
    /\ api.overview.readiness[api.single.version].Signal = "yellow"

\* ===================================================================
\* Properties of the Run loops (SpecRun)
\* ===================================================================
\* C17: no syncer has two SyncOnce calls in progress: a call is in progress
\* exactly while Run is inside it, Run is inside its first call before it
\* ever waits, and every step that starts a call starts it with none in
\* progress.
C17_NoSelfOverlap ==
    \A p \in Loops :
       /\ run[p].inSync <= 1
       /\ run[p].inSync = 1 <=> run[p].pc = "sync"
       /\ run[p].started = 0 <=> run[p].pc = "init"
       /\ run[p].tick = 1 => run[p].started >= 1

\* C17 witness: both syncers are inside SyncOnce at the same time, one of
\* them in a later pass that has outlasted the interval (a tick is
\* buffered).
C17_Witness ==
    /\ run["s3"].pc = "sync" /\ run["jira"].pc = "sync"
    /\ run["s3"].started >= 2
    /\ run["s3"].tick = 1

\* C18 as stated: once the context is cancelled, a Run loop that is in its
\* select does not start another SyncOnce.
C18_Original ==
    [][\A p \in Loops :
          (cancelled /\ run[p].pc = "select") => run'[p].pc # "sync"]_vars

\* C18 witness: a SyncOnce is in progress that was started from the select
\* with the context already cancelled.
C18_Witness ==
    \E p \in Loops :
       /\ cancelled /\ run[p].pc = "sync"
       /\ run[p].late /\ run[p].started >= 2

\* ===================================================================
\* Properties of doGetWithRetry (SpecRetry)
\* ===================================================================
\* C5 as stated: a call that has returned has sent exactly min(k, 3) + 1
\* requests to a server whose first k responses are rate-limit responses.
C5_Original ==
    rt.pc = "done" => rt.requests = Min(rt.k, 3) + 1

\* C5 amended: the wrapper never sends more than 4 requests nor starts a
\* retry beyond the third. A call that returns without its context being
\* cancelled has sent exactly min(k, 3) + 1 requests: it returns the first
\* response that is not a rate-limit response when k <= 3, and the
\* rate-limit error of the fourth request when k > 3. A call whose context
\* is cancelled during one of its waits returns the context's error at
\* once, having sent at most min(k, 3) requests.
C5_RetryBound ==
    /\ rt.requests <= 4
    /\ rt.attempt <= 3
    /\ (rt.pc = "done" /\ rt.result # "ctx") =>
          /\ rt.requests = Min(rt.k, 3) + 1
          /\ rt.k <= 3 => rt.result = (IF rt.after = "ok" THEN "body"
                                       ELSE "error")
          /\ rt.k > 3 => rt.result = "ratelimit"
    /\ (rt.pc = "done" /\ rt.result = "ctx") => rt.requests <= Min(rt.k, 3)

\* C5 witness: against a server that always answers with a rate-limit
\* response, a call has failed with the rate-limit error after the first
\* request and three retries.
C5_Witness ==
    /\ rt.pc = "done" /\ rt.k = MaxLimited
    /\ rt.result = "ratelimit" /\ rt.requests = 4 /\ rt.attempt = 3

\* The wait a retry is due by the server's hint alone, and by the backoff
\* alone.
HintWait == parseRetryAfter(rt.header)
BackoffWait == Pow2(rt.attempt)

\* C15 as stated: when a retry is about to be sent, the wait since the
\* rate-limit response was the server's retry-after hint if the response
\* carried one, and 2^attempt seconds only if it carried none.
C15_Original ==
    (rt.pc = "doGet" /\ rt.attempt > 0) =>
       rt.waited = IF HintWait > 0 THEN HintWait ELSE BackoffWait

\* C15, what the wrapper does: the backoff of 2^attempt seconds is waited
\* before every retry, and the server's hint is waited in addition to it.
C15_HintPlusBackoff ==
    (rt.pc = "doGet" /\ rt.attempt > 0) =>
       rt.waited = HintWait + BackoffWait

\* C15 witness: the first retry is about to be sent 4 seconds after a
\* rate-limit response whose hint was 2 seconds.
C15_Witness ==
    /\ rt.pc = "doGet" /\ rt.attempt = 1
    /\ rt.header = "2" /\ rt.waited = 4

\* C16: a response that is an error other than a rate-limit response ends
\* the call at once: the call has returned that error, the failing request
\* is the last one sent (the k rate-limited ones and this one), and nothing
\* was waited after it.
C16_OtherErrorsNotRetried ==
    /\ (rt.after = "error" /\ rt.requests > rt.k) =>
          /\ rt.pc = "done" /\ rt.result = "error"
          /\ rt.requests = rt.k + 1
          /\ rt.waited = 0
    /\ (rt.pc = "done" /\ rt.result = "error") =>
          rt.after = "error" /\ rt.requests = rt.k + 1

\* C16 witness: a call has returned the error of its third request, which
\* followed two rate-limited ones.
C16_Witness ==
    /\ rt.pc = "done" /\ rt.result = "error"
    /\ rt.k = 2 /\ rt.requests = 3 /\ rt.attempt = 2

\* ===================================================================
\* Properties of the paging loop (SpecSearch)
\* ===================================================================
CeilDiv(a, b) == (a + b - 1) \div b

\* C6: against a server that reports a total of T issues and pages of P, a
\* search that returns without error has made ceil(T/P) requests (one when
\* T = 0) and returns the T issues once each in server order; between
\* requests the offset is the number of issues received so far.
C6_Pagination ==
    /\ sr.pc = "page" => sr.startAt = Len(sr.allIssues)
    /\ (sr.pc = "done" /\ ~sr.err) =>
          /\ sr.calls = IF sr.total = 0 THEN 1
                        ELSE CeilDiv(sr.total, sr.pageSize)
          /\ sr.allIssues = [i \in 1..sr.total |-> i]

\* C6 witness: SearchIssues against total = 3 and pages of 2 has returned 3
\* issues after 2 requests.
C6_Witness ==
    /\ sr.pc = "done" /\ ~sr.err /\ sr.fn = "SearchIssues"
    /\ sr.total = 3 /\ sr.pageSize = 2
    /\ sr.calls = 2 /\ Len(sr.allIssues) = 3

\* C25 as stated: against any server, a search that is started returns.
C25_Original == <>(sr.pc = "done")

\* C25 witness: the server has answered with an empty page and a total
\* beyond the offset, and the loop is about to request the same offset
\* again, not for the first time.
C25_Witness ==
    /\ sr.pc = "page" /\ sr.calls >= 2
    /\ ~sr.failed /\ sr.n = 0 /\ sr.total > sr.startAt
    /\ sr.startAt = Len(sr.allIssues)

\* ===================================================================
\* Properties of computeReadiness (SpecEval)
\* ===================================================================
EvOverdue ==
    ~ev.release.DueDate.isNil /\ ev.now > ev.release.DueDate.at

EvOpenIssues == ~ev.issueSummary.isNil /\ ev.issueSummary.Open > 0

EvIs(signal, message) ==
    ev.readiness.Signal = signal /\ ev.readiness.Message = message

\* C7: the evaluator answers with the first rule that applies, in the
\* order released, past due date, tests failing with open issues, tests
\* failing, open issues, and then due soon or all checks passing.
C7_RuleOrder ==
    ev.pc = "done" =>
       /\ ev.release.Released => EvIs("green", "Released")
       /\ (~ev.release.Released /\ EvOverdue) => EvIs("red", "Past due date")
       /\ (~ev.release.Released /\ ~EvOverdue /\ ~ev.testsPassed
             /\ EvOpenIssues)
            => EvIs("red", "Tests failing and open issues remain")
       /\ (~ev.release.Released /\ ~EvOverdue /\ ~ev.testsPassed
             /\ ~EvOpenIssues)
            => EvIs("yellow", "Integration tests failing")
       /\ (~ev.release.Released /\ ~EvOverdue /\ ev.testsPassed
             /\ EvOpenIssues)
            => EvIs("yellow", "Open issues remain")
       /\ (~ev.release.Released /\ ~EvOverdue /\ ev.testsPassed
             /\ ~EvOpenIssues)
            => \/ EvIs("yellow", "Due date in %d days")
               \/ EvIs("green", "All checks passing")

\* C7 witness: a released release with an overdue due date, failing tests
\* and open issues has been evaluated green, "Released".
C7_Witness ==
    /\ ev.pc = "done" /\ ev.release.Released /\ EvOverdue
    /\ ~ev.testsPassed /\ EvOpenIssues
    /\ EvIs("green", "Released")

\* An evaluated release that is not released, has passing tests, no open
\* issues and a due date in the future.
EvDueAhead ==
    /\ ev.pc = "done"
    /\ ~ev.release.Released /\ ev.testsPassed /\ ~EvOpenIssues
    /\ ~ev.release.DueDate.isNil /\ ev.release.DueDate.at > ev.now

\* Hours from now to the due date.
EvHoursAhead == ev.release.DueDate.at - ev.now

\* C19 as stated: yellow, "Due date in N days", exactly when the due date is
\* at most 72 hours away, and green, "All checks passing", when it is
\* further away.
C19_Original ==
    EvDueAhead =>
       IF EvHoursAhead <= 72
       THEN EvIs("yellow", "Due date in %d days")
       ELSE EvIs("green", "All checks passing")

\* C19 amended: yellow, "Due date in N days" with N the whole days left
\* (hours / 24, truncated), exactly when N <= 3, that is when the due date
\* is less than 96 hours away; green, "All checks passing", from 96 hours
\* on.
C19_DueSoonThreshold ==
    EvDueAhead =>
       IF EvHoursAhead < 96
       THEN /\ EvIs("yellow", "Due date in %d days")
            /\ ev.readiness.Days = EvHoursAhead \div 24
            /\ ev.readiness.Days <= 3
       ELSE EvIs("green", "All checks passing")

\* C19 witness: a due date 95 hours away has been evaluated yellow, "Due
\* date in 3 days".
C19_Witness ==
    /\ EvDueAhead /\ EvHoursAhead = 95
    /\ EvIs("yellow", "Due date in %d days") /\ ev.readiness.Days = 3

\* ===================================================================
\* Properties of the version derivation (SpecParse)
\* ===================================================================
\* The number that starts at position i of a version.
NumberAt(s, i) == SubSeq(s, i, RunEnd(s, i, "d"))
Major(version) == NumberAt(version, 1)
Minor(version) == NumberAt(version, Len(Major(version)) + 2)

DashV == <<"-", "v">>

\* The release derived from product p and a version.
ProductRelease(p, version) ==
    [FixVersion |-> p \o DashV \o version,
     S3Application |-> p \o DashV \o Major(version) \o <<"-">>
                         \o Minor(version)]

\* The release derived from a version alone.
PlainRelease(version) ==
    [FixVersion |-> version,
     S3Application |-> QuayV \o Major(version) \o <<"-">> \o Minor(version)]

SummaryQuay ==
    <<"R", "e", "l", "e", "a", "s", "e", " ", "Q", "u", "a", "y", " ",
      "v", "3", ".", "1", "6", ".", "2">>

SummaryOMR ==
    <<"R", "e", "l", "e", "a", "s", "e", " ", "O", "M", "R", " ",
      "v", "2", ".", "0", ".", "1", "0">>

\* C8 as stated: whenever the match has a product token the release carries
\* it as prefix; without one the release is the plain one; without a match
\* there is no release.
C8_Original ==
    pv.pc = "done" =>
       /\ ~pv.match.ok => pv.releases = <<>>
       /\ (pv.match.ok /\ pv.match.product # <<>>) =>
             pv.releases = <<ProductRelease(pv.match.product,
                                            pv.match.version)>>
       /\ (pv.match.ok /\ pv.match.product = <<>>) =>
             pv.releases = <<PlainRelease(pv.match.version)>>

\* C8 amended: a summary without a version match gives no release. With a
\* match whose (lowercased) product token p is a word other than "release",
\* the fix version is p-vX.Y[.Z] and the application p-vX-Y. With no
\* product token, or with the word "release" in its place, the fix version
\* is X.Y[.Z] alone and the application quay-vX-Y. "Release Quay v3.16.2"
\* gives quay-v3.16.2 and quay-v3-16; "Release OMR v2.0.10" gives
\* omr-v2.0.10 and omr-v2-0.
C8_VersionDerivation ==
    pv.pc = "done" =>
       /\ ~pv.match.ok => pv.releases = <<>>
       /\ (pv.match.ok /\ pv.match.product \notin {<<>>, ReleaseWord}) =>
             pv.releases = <<ProductRelease(pv.match.product,
                                            pv.match.version)>>
       /\ (pv.match.ok /\ pv.match.product \in {<<>>, ReleaseWord}) =>
             pv.releases = <<PlainRelease(pv.match.version)>>
       /\ pv.summary = SummaryQuay =>
             pv.releases =
                <<[FixVersion |-> <<"q", "u", "a", "y", "-", "v", "3", ".",
                                    "1", "6", ".", "2">>,
                   S3Application |-> <<"q", "u", "a", "y", "-", "v", "3",
                                       "-", "1", "6">>]>>
       /\ pv.summary = SummaryOMR =>
             pv.releases =
                <<[FixVersion |-> <<"o", "m", "r", "-", "v", "2", ".", "0",
                                    ".", "1", "0">>,
                   S3Application |-> <<"o", "m", "r", "-", "v", "2", "-",
                                       "0">>]>>

\* C8 witness: the summary "Release OMR v2.0.10" has produced the release
\* omr-v2.0.10.
C8_Witness ==
    /\ pv.pc = "done" /\ pv.summary = SummaryOMR
    /\ Len(pv.releases) = 1
    /\ pv.releases[1].S3Application = <<"o", "m", "r", "-", "v", "2", "-", "0">>

====
